---- MODULE Spec2Model ----
(***************************************************************************)
(* leptos_ws: named signals mirrored between one server and its websocket  *)
(* clients by exchanging RFC 6902 JSON patches.                            *)
(*                                                                         *)
(* The module models                                                       *)
(*   - the patch codec as the code uses it (json_patch::diff / ::patch),   *)
(*   - the server registry WsSignals and the server signal entries,        *)
(*   - the per connection protocol driver leptos_ws_websocket with its     *)
(*     forwarders handle_broadcasts and the bounded outbound queue,        *)
(*   - the client registry, the client signal entries and the client's     *)
(*     receive loop in ServerSignalWebSocket::new.                         *)
(***************************************************************************)
EXTENDS Integers, Sequences, FiniteSets, TLC

(***************************************************************************)
(* Bounds of the model.                                                    *)
(***************************************************************************)
\* longest Vec a writer builds
MaxLen == 2
\* number of local writes, of the server and of the clients together
MaxWrites == 2
\* number of frames a peer sends that no client signal produced
MaxRaw == 1
\* number of calls of new(), of the server threads and the clients together
MaxCalls == 4
\* the number of times the transport of the clients reopens
MaxRe == 1

(***************************************************************************)
(* Program constants.                                                      *)
(***************************************************************************)
\* tokio::sync::broadcast::channel(32) of every signal entry
BroadcastCap == 32
\* futures mpsc::channel(1): the outbound queue of a server session
OutboundBuffer == 1
\* buffer of the client's outbound queue: mpsc::channel(32)
ClientBuffer == 32

(***************************************************************************)
(* JSON values.  Every value is a record of one shape so that any two      *)
(* values can be compared: an integer, an array of integers, or a string.  *)
(***************************************************************************)
JInt(i) == [t |-> "int", n |-> i, a |-> <<>>]
JArr(s) == [t |-> "arr", n |-> 0, a |-> s]
JStr == [t |-> "str", n |-> 0, a |-> <<>>]

\* the data the writers of the model store: elements pushed to a Vec, and
\* i32 values (two of them, or three where two writers must differ from each
\* other and from the value they start with)
Elems == {1, 2}
Bits == {0, 1}
Vals == {0, 1, 2}

\* serde_json::to_value of a typed value (i32 or Vec<i32>)
ToValue(v) == IF v.ty = "i32" THEN JInt(v.n) ELSE JArr(v.a)

\* serde_json::from_value::<T>: fails when the JSON is not of the shape of T
FromValueOk(ty, j) ==
    \/ (ty = "i32" /\ j.t = "int")
    \/ (ty = "vec" /\ j.t = "arr")
    \/ (ty = "str" /\ j.t = "str")
FromValue(ty, j) == IF ty = "i32" THEN [ty |-> "i32", n |-> j.n, a |-> <<>>]
                    ELSE [ty |-> "vec", n |-> 0, a |-> j.a]

TInt(i) == [ty |-> "i32", n |-> i, a |-> <<>>]
TVec(s) == [ty |-> "vec", n |-> 0, a |-> s]

(***************************************************************************)
(* Patch codec.  A patch is a sequence of operations; a path is the root   *)
(* (idx = -1) or one array index.                                          *)
(***************************************************************************)
Root == -1
OpReplace(i, j) == [op |-> "replace", idx |-> i, val |-> j]
OpAdd(i, j) == [op |-> "add", idx |-> i, val |-> j]
OpRemove(i) == [op |-> "remove", idx |-> i, val |-> JInt(0)]

Min(x, y) == IF x < y THEN x ELSE y

\* json_patch::diff: equal values give the empty patch, two arrays are
\* compared index by index (replace for a changed element, then remove for
\* the surplus of the old array or add for the surplus of the new one),
\* anything else is one replace of the whole document.
RECURSIVE DiffCommon(_, _, _)
DiffCommon(old, new, i) ==
    IF i > Min(Len(old), Len(new)) THEN <<>>
    ELSE (IF old[i] = new[i] THEN <<>> ELSE <<OpReplace(i - 1, JInt(new[i]))>>)
         \o DiffCommon(old, new, i + 1)

RECURSIVE DiffRemoved(_, _)
DiffRemoved(at, k) ==
    IF k = 0 THEN <<>> ELSE <<OpRemove(at)>> \o DiffRemoved(at, k - 1)

RECURSIVE DiffAdded(_, _)
DiffAdded(new, i) ==
    IF i > Len(new) THEN <<>>
    ELSE <<OpAdd(i - 1, JInt(new[i]))>> \o DiffAdded(new, i + 1)

Diff(old, new) ==
    IF old = new THEN <<>>
    ELSE IF old.t = "arr" /\ new.t = "arr"
    THEN DiffCommon(old.a, new.a, 1)
         \o (IF Len(old.a) > Len(new.a)
             THEN DiffRemoved(Len(new.a), Len(old.a) - Len(new.a))
             ELSE DiffAdded(new.a, Len(old.a) + 1))
    ELSE <<OpReplace(Root, new)>>

\* one operation applied to a document: [ok, doc]
InsertAt(s, i, x) == SubSeq(s, 1, i) \o <<x>> \o SubSeq(s, i + 1, Len(s))
RemoveAt(s, i) == SubSeq(s, 1, i) \o SubSeq(s, i + 2, Len(s))
ReplaceAt(s, i, x) == [s EXCEPT ![i + 1] = x]

ApplyOp(doc, o) ==
    IF o.idx = Root
    THEN (IF o.op = "remove" THEN [ok |-> FALSE, doc |-> doc]
          ELSE [ok |-> TRUE, doc |-> o.val])
    ELSE IF doc.t # "arr" \/ o.val.t # "int" THEN [ok |-> FALSE, doc |-> doc]
    ELSE IF o.op = "add"
    THEN (IF o.idx <= Len(doc.a)
          THEN [ok |-> TRUE, doc |-> JArr(InsertAt(doc.a, o.idx, o.val.n))]
          ELSE [ok |-> FALSE, doc |-> doc])
    ELSE IF o.idx >= Len(doc.a) THEN [ok |-> FALSE, doc |-> doc]
    ELSE IF o.op = "remove"
    THEN [ok |-> TRUE, doc |-> JArr(RemoveAt(doc.a, o.idx))]
    ELSE [ok |-> TRUE, doc |-> JArr(ReplaceAt(doc.a, o.idx, o.val.n))]

\* json_patch::patch: the operations in order; when one fails the document
\* is left as it was before the call
RECURSIVE ApplyOps(_, _)
ApplyOps(doc, p) ==
    IF p = <<>> THEN [ok |-> TRUE, doc |-> doc]
    ELSE LET r == ApplyOp(doc, Head(p))
         IN IF r.ok THEN ApplyOps(r.doc, Tail(p)) ELSE r

ApplyPatch(doc, p) ==
    LET r == ApplyOps(doc, p)
    IN IF r.ok THEN r ELSE [ok |-> FALSE, doc |-> doc]


(***************************************************************************)
(* The signals of the model, the sessions and the message tags.            *)
(***************************************************************************)
Names == {"ro", "bi"}
Sessions == {1, 2}
Threads == {1, 2}

\* Option<String> of an origin: None, or Some(id) of a session.  The ids are
\* minted by nanoid!() per connection and are pairwise different.
None == 0

\* the names of read-only signals; "count" is held by the clients whose
\* registry is ClientSignals
ReadOnlyNames == {"ro", "count"}
KindOf(n) == IF n \in ReadOnlyNames THEN "ReadOnly" ELSE "BiDirectional"
TypeOf(n) == IF n = "ro" THEN "vec" ELSE "i32"
Default(ty) == IF ty = "i32" THEN TInt(0) ELSE TVec(<<>>)

VARIABLES
    signals,    \* WsSignals.signals of the server: name -> entry (0: unbound)
    entries,    \* the server signal entries ever allocated (Arc'ed structs)
    fwd,        \* broadcast receivers of the server entries and their tasks
    hnd,        \* per session: position of the inbound task of the session
                \* ("closed": the websocket of the client is not open yet,
                \* "gone": the websocket has closed, "ended": the task
                \* has left its loop)
    inq,        \* per session: frames sent by the client, not yet read
    out,        \* per session: the outbound mpsc queue (tx/rx of the session)
    parked,     \* per session: senders of the outbound queue that are parked
    cli,        \* per client: WsSignals.signals of the client
    tasks,      \* per client: update tasks spawned by the receive loop
    lw,         \* per signal: position of the server task writing it locally
                \* (writes: the number of local writes begun so far,
                \* did_update: what the closure of the last one reported,
                \* noop: the closure of the last one left the value equal
                \* to the shadow)
    thr,        \* per server thread: position inside a call of new()
    calls,      \* completed calls of new(), in order of completion
    cnt         \* counters that bound the writers

vars == <<signals, entries, fwd, hnd, inq, out, parked, cli, tasks, lw, thr,
          calls, cnt>>

(***************************************************************************)
(* Frames (enum Messages).  org, by and seq do not travel.  For an Update   *)
(* org is the origin it was broadcast with, by is the writer whose write   *)
(* produced it (None: a local write of the server, s: a frame of session   *)
(* s) and seq is its position in the order of the updates of the entry.    *)
(* For an EstablishResponse seq is the number of updates its value holds.  *)
(***************************************************************************)
Frame(tag, n, v, p) ==
    [tag |-> tag, name |-> n, val |-> v, patch |-> p,
     org |-> None, by |-> None, seq |-> 0]

Establish(kind, n) ==
    Frame(IF kind = "ReadOnly" THEN "ServerSignal.Establish"
          ELSE "BiDirectional.Establish", n, JInt(0), <<>>)
EstablishResponse(tag, n, v) ==
    Frame(IF tag = "ServerSignal.Establish" THEN "ServerSignal.EstablishResponse"
          ELSE "BiDirectional.EstablishResponse", n, v, <<>>)
Update(kind, n, p) ==
    Frame(IF kind = "ReadOnly" THEN "ServerSignal.Update"
          ELSE "BiDirectional.Update", n, JInt(0), p)

IsEstablish(f) == f.tag \in {"ServerSignal.Establish", "BiDirectional.Establish"}
IsUpdate(f) == f.tag \in {"ServerSignal.Update", "BiDirectional.Update"}
IsResponse(f) ==
    f.tag \in {"ServerSignal.EstablishResponse", "BiDirectional.EstablishResponse"}

\* enum ChannelMessage: Establish(name), EstablishResponse(name) and
\* Message(name, value)
ChannelEstablish(n) == Frame("Channel.Establish", n, JInt(0), <<>>)
ChannelEstablishResponse(n) == Frame("Channel.EstablishResponse", n, JInt(0), <<>>)
ChannelMessage(n, v) == Frame("Channel.Message", n, v, <<>>)
\* an item of the websocket stream that is Err(ServerFnError): a message
\* that could not be decoded
ErrFrame == Frame("Err", "", JInt(0), <<>>)

IsChannel(f) ==
    f.tag \in {"Channel.Establish", "Channel.EstablishResponse", "Channel.Message"}

(***************************************************************************)
(* Server signal entries.                                                  *)
(***************************************************************************)
NewEntry(kind, ty, n, v) ==
    [kind |-> kind, ty |-> ty, name |-> n, initial |-> v, value |-> v,
     json_value |-> ToValue(v), seq |-> 0]

\* WsSignalCore::update_json of ServerReadOnlySignal and of
\* ServerBidirectionalSignal, under the write lock of json_value.
\*   res "Ok": the patch is applied and the event is sent to the observers
\*   res "UpdateSignalFailed": json_patch::patch failed
\*   res "SerializationFailed": the patched document is not a T; the `?`
\*     leaves the function after the patch was applied in place
update_json_if_changed(ent, p, id) ==
    LET r == ApplyPatch(ent.json_value, p)
        setsCell == ent.kind = "BiDirectional" /\ id # None
    IN IF ~r.ok
       THEN [res |-> "UpdateSignalFailed", ent |-> ent, sent |-> FALSE]
       ELSE IF setsCell /\ ~FromValueOk(ent.ty, r.doc)
       THEN [res |-> "SerializationFailed",
             ent |-> [ent EXCEPT !.json_value = r.doc], sent |-> FALSE]
       ELSE IF r.doc = ent.json_value
       THEN [res |-> "Ok", ent |-> ent, sent |-> FALSE]
       ELSE [res |-> "Ok",
             ent |-> [ent EXCEPT !.json_value = r.doc,
                                 !.value = IF setsCell
                                           THEN FromValue(ent.ty, r.doc)
                                           ELSE @,
                                 !.seq = @ + 1],
             sent |-> TRUE]

update_json(ent, p, id) ==
    LET r == ApplyPatch(ent.json_value, p)
        setsCell == ent.kind = "BiDirectional" /\ id # None
    IN IF ~r.ok
       THEN [res |-> "UpdateSignalFailed", ent |-> ent, sent |-> FALSE]
       ELSE IF setsCell /\ ~FromValueOk(ent.ty, r.doc)
       THEN [res |-> "SerializationFailed",
             ent |-> [ent EXCEPT !.json_value = r.doc], sent |-> FALSE]
       ELSE [res |-> "Ok",
             ent |-> [ent EXCEPT !.json_value = r.doc,
                                 !.value = IF setsCell
                                           THEN FromValue(ent.ty, r.doc)
                                           ELSE @,
                                 !.seq = @ + 1],
             sent |-> TRUE]

\* the event update_json sends: the origin it was called with and the frame
Event(ent, p, id, by) ==
    [origin |-> id,
     frame |-> [Update(ent.kind, ent.name, p) EXCEPT !.org = id, !.by = by,
                                                      !.seq = ent.seq + 1]]

\* tokio broadcast Sender::send: every live receiver of the entry gets the
\* event; a receiver that already holds BroadcastCap events loses the oldest
\* one and will see Lagged on its next recv
SendFront(fw, e, ev) ==
    [k \in DOMAIN fw |->
        IF fw[k].entry = e /\ fw[k].st # "done"
        THEN [fw[k] EXCEPT !.buf = <<ev>> \o @]
        ELSE fw[k]]

Send(fw, e, ev) ==
    [k \in DOMAIN fw |->
        IF fw[k].entry = e /\ fw[k].st # "done"
        THEN IF Len(fw[k].buf) < BroadcastCap
             THEN [fw[k] EXCEPT !.buf = Append(@, ev)]
             ELSE [fw[k] EXCEPT !.buf = Append(Tail(@), ev), !.lagged = TRUE]
        ELSE fw[k]]


(***************************************************************************)
(* Server: local writes.  Update::try_maybe_update writes the cell, then   *)
(* update_if_changed reads the shadow under the read lock, computes the    *)
(* diff, drops the lock, and update_json takes the write lock to apply it. *)
(* Several server tasks hold handles of one entry, so the three steps of   *)
(* one writer interleave with the steps of the sessions.                   *)
(***************************************************************************)
\* the values a closure given to update() leaves in the cell: any i32 of V,
\* or the Vec as it is or with one more element pushed
Written(V, v) ==
    IF v.ty = "i32" THEN {TInt(i) : i \in V}
    ELSE {v} \cup (IF Len(v.a) < MaxLen
                   THEN {TVec(Append(v.a, x)) : x \in Elems} ELSE {})

\* try_maybe_update up to drop(lock): the closure has run on the cell
try_maybe_update(n, v) ==
    /\ lw[n].pc = "idle"
    /\ cnt.writes < MaxWrites
    /\ entries' = [entries EXCEPT ![lw[n].h].value = v]
    /\ lw' = [lw EXCEPT ![n].pc = "written", ![n].writes = @ + 1,
                        ![n].noop = (ToValue(v) = entries[lw[n].h].json_value),
                        ![n].did_update = TRUE]
    /\ cnt' = [cnt EXCEPT !.writes = @ + 1]
    /\ UNCHANGED <<signals, fwd, hnd, inq, out, parked, cli, tasks, thr, calls>>

\* try_maybe_update up to drop(lock) when the closure returns (false, _),
\* as a closure given to maybe_update can: the closure has run on the cell
\* and left v there, the guard is untracked (no subscriber is notified),
\* and update_if_changed is called all the same
try_maybe_update_false(n, v) ==
    /\ lw[n].pc = "idle"
    /\ cnt.writes < MaxWrites
    /\ entries' = [entries EXCEPT ![lw[n].h].value = v]
    /\ lw' = [lw EXCEPT ![n].pc = "written", ![n].writes = @ + 1,
                        ![n].noop = (ToValue(v) = entries[lw[n].h].json_value),
                        ![n].did_update = FALSE]
    /\ cnt' = [cnt EXCEPT !.writes = @ + 1]
    /\ UNCHANGED <<signals, fwd, hnd, inq, out, parked, cli, tasks, thr, calls>>

\* update_if_changed up to drop(json): nothing to do when the shadow already
\* equals the serialized cell
update_if_changed_always(n) ==
    LET ent == entries[lw[n].h]
    IN /\ lw[n].pc = "written"
       /\ lw' = [lw EXCEPT ![n].pc = "diffed",
                           ![n].patch = Diff(ent.json_value, ToValue(ent.value))]
       /\ UNCHANGED <<signals, entries, fwd, hnd, inq, out, parked, cli,
                      tasks, thr, calls, cnt>>

update_if_changed(n) ==
    LET ent == entries[lw[n].h]
        new_json == ToValue(ent.value)
    IN /\ lw[n].pc = "written"
       /\ lw' = IF ent.json_value # new_json
                THEN [lw EXCEPT ![n].pc = "diffed",
                                ![n].patch = Diff(ent.json_value, new_json)]
                ELSE [lw EXCEPT ![n].pc = "idle"]
       /\ UNCHANGED <<signals, entries, fwd, hnd, inq, out, parked, cli,
                      tasks, thr, calls, cnt>>

\* the call self.update_json(&patch, None) that ends update_if_changed
update_json_local(n) ==
    LET e == lw[n].h
        r == update_json(entries[e], lw[n].patch, None)
    IN /\ lw[n].pc = "diffed"
       /\ entries' = [entries EXCEPT ![e] = r.ent]
       /\ fwd' = IF r.sent
                 THEN Send(fwd, e, Event(entries[e], lw[n].patch, None, None))
                 ELSE fwd
       /\ lw' = [lw EXCEPT ![n].pc = "idle", ![n].patch = <<>>]
       /\ UNCHANGED <<signals, hnd, inq, out, parked, cli, tasks, thr,
                      calls, cnt>>

(***************************************************************************)
(* Server: the inbound task of a session (leptos_ws_websocket).            *)
(***************************************************************************)
HndIdle == [pc |-> "idle", name |-> "", tag |-> "", fw |-> 0]
ThrIdle ==
    [pc |-> "idle", name |-> "", kind |-> "", ty |-> "", init |-> TInt(0),
     bound |-> 0]

\* futures mpsc Sender::send: the message is queued; the sender is parked
\* when the queue then holds more than the buffer, and its send().await
\* returns only after the receiver has unparked it
Enqueue(q, pk, who, f) ==
    [q |-> Append(q, f),
     pk |-> IF Len(q) + 1 > OutboundBuffer THEN Append(pk, who) ELSE pk]

IsParked(s, who) == \E i \in DOMAIN parked[s] : parked[s][i] = who

\* Establish, first statement: server_signals.add_observer(&name).unwrap()
add_observer_spawned(s) ==
    LET f == Head(inq[s])
        e == signals[f.name]
    IN /\ hnd[s].pc = "idle"
       /\ inq[s] # <<>>
       /\ IsEstablish(f)
       /\ inq' = [inq EXCEPT ![s] = Tail(@)]
       /\ IF e = 0
          THEN /\ hnd' = [hnd EXCEPT ![s].pc = "panicked"]
               /\ fwd' = fwd
          ELSE /\ fwd' = Append(fwd, [sess |-> s, entry |-> e, buf |-> <<>>,
                                      st |-> "running", lagged |-> FALSE,
                                      skipped |-> 0])
               /\ hnd' = [hnd EXCEPT ![s] = [pc |-> "subscribed",
                                             name |-> f.name, tag |-> f.tag,
                                             fw |-> Len(fwd) + 1]]
       /\ UNCHANGED <<signals, entries, out, parked, cli, tasks, lw, thr,
                      calls, cnt>>

add_observer(s) ==
    LET f == Head(inq[s])
        e == signals[f.name]
    IN /\ hnd[s].pc = "idle"
       /\ inq[s] # <<>>
       /\ IsEstablish(f)
       /\ inq' = [inq EXCEPT ![s] = Tail(@)]
       /\ IF e = 0
          THEN /\ hnd' = [hnd EXCEPT ![s].pc = "panicked"]
               /\ fwd' = fwd
          ELSE /\ fwd' = Append(fwd, [sess |-> s, entry |-> e, buf |-> <<>>,
                                      st |-> "subscribed", lagged |-> FALSE,
                                      skipped |-> 0])
               /\ hnd' = [hnd EXCEPT ![s] = [pc |-> "subscribed",
                                             name |-> f.name, tag |-> f.tag,
                                             fw |-> Len(fwd) + 1]]
       /\ UNCHANGED <<signals, entries, out, parked, cli, tasks, lw, thr,
                      calls, cnt>>

\* Establish, second statement up to the queueing of the response:
\* server_signals.json(&name).unwrap().unwrap() is read and handed to tx.send
send_establish_response(s) ==
    LET n == hnd[s].name
        e == signals[n]
    IN /\ hnd[s].pc = "subscribed"
       /\ IF e = 0
          THEN /\ hnd' = [hnd EXCEPT ![s].pc = "panicked"]
               /\ UNCHANGED <<out, parked, fwd>>
          ELSE LET f == [EstablishResponse(hnd[s].tag, n, entries[e].json_value)
                           EXCEPT !.seq = entries[e].seq]
                   q == Enqueue(out[s], parked[s], 0, f)
               IN /\ out' = [out EXCEPT ![s] = q.q]
                  /\ parked' = [parked EXCEPT ![s] = q.pk]
                  /\ fwd' = fwd
                  /\ hnd' = [hnd EXCEPT ![s].pc = "responded"]
       /\ UNCHANGED <<signals, entries, inq, cli, tasks, lw, thr, calls, cnt>>

\* Establish, after tx.send(..).await has returned:
\* tokio::spawn(handle_broadcasts(id, recv, tx.clone()))
spawn_handle_broadcasts(s) ==
    /\ hnd[s].pc = "responded"
    /\ ~IsParked(s, 0)
    /\ fwd' = [fwd EXCEPT ![hnd[s].fw].st = "running"]
    /\ hnd' = [hnd EXCEPT ![s] = HndIdle]
    /\ UNCHANGED <<signals, entries, inq, out, parked, cli, tasks, lw, thr,
                   calls, cnt>>

\* the origin a session passes with the update of its client:
\* Some(id.to_string())
SomeDropped(s) == None
Some(s) == s

\* WsSignals::update as the session calls it for BiDirectionalMessage::Update:
\* whatever entry the name is bound to gets update_json(patch, Some(id))
update(s) ==
    LET f == Head(inq[s])
        e == signals[f.name]
    IN /\ hnd[s].pc = "idle"
       /\ inq[s] # <<>>
       /\ f.tag = "BiDirectional.Update"
       /\ inq' = [inq EXCEPT ![s] = Tail(@)]
       /\ IF e = 0
          THEN UNCHANGED <<entries, fwd>>
          ELSE LET r == update_json(entries[e], f.patch, Some(s))
               IN /\ entries' = [entries EXCEPT ![e] = r.ent]
                  /\ fwd' = IF r.sent
                            THEN Send(fwd, e,
                                      Event(entries[e], f.patch, Some(s), s))
                            ELSE fwd
       /\ UNCHANGED <<signals, hnd, out, parked, cli, tasks, lw, thr, calls,
                      cnt>>

\* any other frame: "Unexpected ... message from client" is logged
unexpected_message_break(s) ==
    LET f == Head(inq[s])
    IN /\ hnd[s].pc = "idle"
       /\ inq[s] # <<>>
       /\ ~IsEstablish(f)
       /\ f.tag # "BiDirectional.Update"
       /\ f.tag \notin {"Channel.Establish", "Channel.Message"}
       /\ f # ErrFrame
       /\ inq' = [inq EXCEPT ![s] = Tail(@)]
       /\ hnd' = [hnd EXCEPT ![s].pc = "ended"]
       /\ UNCHANGED <<signals, entries, fwd, out, parked, cli, tasks,
                      lw, thr, calls, cnt>>

unexpected_message(s) ==
    LET f == Head(inq[s])
    IN /\ hnd[s].pc = "idle"
       /\ inq[s] # <<>>
       /\ ~IsEstablish(f)
       /\ f.tag # "BiDirectional.Update"
       /\ f.tag \notin {"Channel.Establish", "Channel.Message"}
       /\ f # ErrFrame
       /\ inq' = [inq EXCEPT ![s] = Tail(@)]
       /\ UNCHANGED <<signals, entries, fwd, hnd, out, parked, cli, tasks,
                      lw, thr, calls, cnt>>

\* the test of handle_broadcasts: message.0.is_some_and(|v| id == v)
is_own_never(origin, s) == FALSE
is_own_or_none(origin, s) == origin = None \/ origin = s
is_own(origin, s) == origin # None /\ origin = s

\* handle_broadcasts: one turn of the loop of forwarder k.  recv() fails
\* with Lagged when events were overwritten, which ends the loop; an event
\* whose origin is the id of the session is skipped; any other is sent, and
\* the loop ends when the send fails because the receiver of the outbound
\* queue has been dropped.
handle_broadcasts(k) ==
    LET w == fwd[k]
        s == w.sess
        ev == Head(w.buf)
    IN /\ w.st = "running"
       /\ ~IsParked(s, k)
       /\ w.buf # <<>>
       /\ IF w.lagged
          THEN /\ fwd' = [fwd EXCEPT ![k].st = "done", ![k].buf = <<>>]
               /\ UNCHANGED <<out, parked>>
          ELSE IF is_own(ev.origin, s)
          THEN /\ fwd' = [fwd EXCEPT ![k].buf = Tail(@),
                                     ![k].skipped = @ + 1]
               /\ UNCHANGED <<out, parked>>
          ELSE IF hnd[s].pc = "gone"
          THEN /\ fwd' = [fwd EXCEPT ![k].st = "done", ![k].buf = <<>>]
               /\ UNCHANGED <<out, parked>>
          ELSE LET q == Enqueue(out[s], parked[s], k, ev.frame)
               IN /\ fwd' = [fwd EXCEPT ![k].buf = Tail(@)]
                  /\ out' = [out EXCEPT ![s] = q.q]
                  /\ parked' = [parked EXCEPT ![s] = q.pk]
       /\ UNCHANGED <<signals, entries, hnd, inq, cli, tasks, lw, thr,
                      calls, cnt>>


(***************************************************************************)
(* Client: the registry, the signal entries and the receive loop.          *)
(***************************************************************************)
\* the id the client passes with a BiDirectional update it received:
\* Some(String::new())
ClientSome == -1

Absent ==
    [present |-> FALSE, kind |-> "", ty |-> "", value |-> TInt(0),
     json_value |-> JInt(0), bufs |-> <<>>, news |-> 0, established |-> 0,
     first |-> TInt(0), snap |-> 0, seen |-> <<>>, wrote |-> FALSE,
     callback |-> FALSE, sent |-> 0, heard |-> <<>>, early |-> FALSE,
     notified |-> 0]

\* WsSignalCore::update_json of the client entries.  ClientBidirectionalSignal
\* sets the cell after every applied patch and sends the update to its
\* observers when there is no id; the read-only client signal (ClientSignal)
\* sets the cell and has no observers.  set: self.value.set(..) was called,
\* which notifies the subscribers of the cell.
client_update_json(ent, p, id) ==
    LET r == ApplyPatch(ent.json_value, p)
    IN IF ~r.ok
       THEN [res |-> "UpdateSignalFailed", ent |-> ent, sent |-> FALSE,
             set |-> FALSE]
       ELSE IF ~FromValueOk(ent.ty, r.doc)
       THEN [res |-> "SerializationFailed",
             ent |-> [ent EXCEPT !.json_value = r.doc], sent |-> FALSE,
             set |-> FALSE]
       ELSE [res |-> "Ok",
             ent |-> [ent EXCEPT !.json_value = r.doc,
                                 !.value = FromValue(ent.ty, r.doc)],
             sent |-> ent.kind = "BiDirectional" /\ id = None,
             set |-> TRUE]

\* WsSignalCore::set_json: the shadow is replaced, then the cell is set from
\* it; the `?` leaves the function between the two when the value is no T
set_json(ent, j) ==
    IF FromValueOk(ent.ty, j)
    THEN [ent EXCEPT !.json_value = j, !.value = FromValue(ent.ty, j)]
    ELSE [ent EXCEPT !.json_value = j]

\* the capacity of the broadcast channel of a client entry
ClientBroadcastCap == 32

\* what is left of a receiver that has lagged: its next recv returns
\* Err(Lagged), on which handle_broadcasts_client leaves its loop
Lagged == Frame("Lagged", "", JInt(0), <<>>)

\* the client's observers.send: every receiver handed out by subscribe gets
\* the update; a receiver that already holds ClientBroadcastCap updates
\* loses the oldest one and has lagged
ClientSend(ent, f) ==
    [ent EXCEPT !.bufs = [k \in DOMAIN @ |->
                            IF @[k] = <<Lagged>> THEN @[k]
                            ELSE IF Len(@[k]) < ClientBroadcastCap
                            THEN Append(@[k], f)
                            ELSE <<Lagged>>]]

\* ServerSignalWebSocket::send: try_send on a clone of the sender of the
\* client's mpsc queue, whose receiver is the input stream of the websocket.
\* A sender of futures mpsc that has just been cloned is not parked, so its
\* try_send queues the frame whatever the queue holds; the frames stay
\* queued until the transport is open and the stream is read.  inq is that
\* queue and the websocket behind it.
ws_send_if_open(c, f) ==
    IF hnd[c].pc = "closed" THEN inq[c] ELSE Append(inq[c], f)
ws_send(c, f) == Append(inq[c], f)

\* WsSignals::contains, of the client's and of the server's registry
client_contains(c, n) == cli[c][n].present
contains_never(n) == FALSE
contains(n) == signals[n] # 0

\* ClientBidirectionalSignal::new / the read-only client signal's new, with
\* WsSignals::create_signal of the client build: a bound name returns the
\* entry that is there; an unbound name is inserted and Establish is sent
client_new(c, n, v) ==
    /\ tasks[c] = <<>>
    /\ cnt.calls < MaxCalls
    /\ v.ty = TypeOf(n)
    /\ cnt' = [cnt EXCEPT !.calls = @ + 1]
    /\ IF client_contains(c, n)
       THEN /\ cli' = [cli EXCEPT ![c][n].news = @ + 1]
            /\ inq' = inq
       ELSE /\ cli' = [cli EXCEPT ![c][n] =
                          [present |-> TRUE, kind |-> KindOf(n),
                           ty |-> TypeOf(n), value |-> v,
                           json_value |-> ToValue(v), bufs |-> <<>>,
                           news |-> 1, established |-> 0, first |-> v,
                           snap |-> 0, seen |-> <<>>, wrote |-> FALSE,
                           callback |-> FALSE, sent |-> 0, heard |-> <<>>,
                           early |-> hnd[c].pc = "closed",
                           notified |-> 0]]
            /\ inq' = [inq EXCEPT ![c] = ws_send(c, Establish(KindOf(n), n))]
    /\ UNCHANGED <<signals, entries, fwd, hnd, out, parked, tasks, lw, thr,
                   calls>>

\* Update::try_maybe_update of ClientBidirectionalSignal: the closure writes
\* the cell, update_if_changed diffs it against the shadow and update_json
\* applies the diff with no id.  The client runs on one thread and nothing
\* in the call suspends.  notified: how often this write has notified the
\* subscribers of the cell, once when the write guard is dropped and once
\* more when update_json sets the cell.
client_try_maybe_update(c, n, v) ==
    LET ent == cli[c][n]
        new_json == ToValue(v)
        p == Diff(ent.json_value, new_json)
        r == client_update_json([ent EXCEPT !.value = v], p, None)
    IN /\ tasks[c] = <<>>
       /\ ent.present
       /\ ent.kind = "BiDirectional"
       /\ cnt.writes < MaxWrites
       /\ cnt' = [cnt EXCEPT !.writes = @ + 1]
       /\ cli' = [cli EXCEPT ![c][n] =
                     [(IF ent.json_value = new_json
                       THEN [ent EXCEPT !.value = v]
                       ELSE IF r.sent
                       THEN ClientSend(r.ent, [Update(ent.kind, n, p)
                                                 EXCEPT !.by = c])
                       ELSE r.ent) EXCEPT
                        !.wrote = TRUE,
                        !.notified = IF ent.json_value # new_json /\ r.set
                                     THEN 2 ELSE 1]]
       /\ UNCHANGED <<signals, entries, fwd, hnd, inq, out, parked, tasks,
                      lw, thr, calls>>

\* handle_broadcasts_client: receiver k of the entry hands its next update
\* to the send queue of the client; the task has ended when the receiver
\* has lagged (`while let Ok(message) = receiver.recv().await`)
handle_broadcasts_client(c, n, k) ==
    /\ cli[c][n].present
    /\ k \in DOMAIN cli[c][n].bufs
    /\ cli[c][n].bufs[k] # <<>>
    /\ cli[c][n].bufs[k] # <<Lagged>>
    /\ inq' = [inq EXCEPT ![c] = Append(@, Head(cli[c][n].bufs[k]))]
    /\ cli' = [cli EXCEPT ![c][n].bufs[k] = Tail(@)]
    /\ UNCHANGED <<signals, entries, fwd, hnd, out, parked, tasks, lw, thr,
                   calls, cnt>>

\* one turn of the receive loop in ServerSignalWebSocket::new.  The frame
\* leaves the outbound queue of the session (which unparks the sender that
\* waits longest) and reaches the client in order.  EstablishResponse is
\* handled in the loop; an Update is handed to a task of its own, which the
\* single threaded executor of the client runs when the loop waits for the
\* next websocket message.
receive(c) ==
    LET f == Head(out[c])
        ent == cli[c][f.name]
    IN /\ out[c] # <<>>
       /\ tasks[c] = <<>>
       /\ ~IsChannel(f)
       /\ out' = [out EXCEPT ![c] = Tail(@)]
       /\ parked' = [parked EXCEPT ![c] = IF @ = <<>> THEN @ ELSE Tail(@)]
       /\ IF IsResponse(f)
          THEN /\ tasks' = tasks
               /\ cli' = IF ~ent.present THEN cli
                         ELSE [cli EXCEPT ![c][f.name] =
                                 LET seeded == [set_json(ent, f.val) EXCEPT
                                                  !.established = @ + 1,
                                                  !.snap = f.seq,
                                                  !.seen = <<>>]
                                 IN IF f.tag = "BiDirectional.EstablishResponse"
                                    THEN [seeded EXCEPT !.bufs = Append(@, <<>>)]
                                    ELSE seeded]
          ELSE /\ cli' = IF ~ent.present THEN cli
                         ELSE [cli EXCEPT ![c][f.name].seen = Append(@, f.seq)]
               /\ tasks' = [tasks EXCEPT ![c] =
                              Append(@, [name |-> f.name, patch |-> f.patch,
                                         id |-> IF f.tag = "ServerSignal.Update"
                                                THEN None ELSE ClientSome])]
       /\ UNCHANGED <<signals, entries, fwd, hnd, inq, lw, thr, calls, cnt>>

\* the task spawned for an Update: state_signals.update(name, update, id)
client_update(c) ==
    LET t == Head(tasks[c])
        ent == cli[c][t.name]
        r == client_update_json(ent, t.patch, t.id)
    IN /\ tasks[c] # <<>>
       /\ tasks' = [tasks EXCEPT ![c] = Tail(@)]
       /\ cli' = IF ~ent.present THEN cli
                 ELSE [cli EXCEPT ![c][t.name] =
                         IF r.sent
                         THEN ClientSend(r.ent, Update(ent.kind, t.name, t.patch))
                         ELSE r.ent]
       /\ UNCHANGED <<signals, entries, fwd, hnd, inq, out, parked, lw, thr,
                      calls, cnt>>

\* a peer of the websocket sends frames of its own making: a
\* BiDirectional.Update, or a frame only the server sends (raw_frame).
\* The patches of such a peer: one that fits the type of the signal, one
\* that applies and leaves a document that is no T, one that does not apply
RawPatches(ty) ==
    IF ty = "i32"
    THEN {<<OpReplace(Root, JInt(1))>>, <<OpReplace(Root, JStr)>>,
          <<OpAdd(0, JInt(1))>>}
    ELSE {<<OpAdd(0, JInt(1))>>, <<OpReplace(Root, JStr)>>,
          <<OpRemove(0)>>}

raw_update(s, n, p) ==
    /\ cnt.raw < MaxRaw
    /\ cnt' = [cnt EXCEPT !.raw = @ + 1]
    /\ inq' = [inq EXCEPT ![s] =
                 Append(@, [Update("BiDirectional", n, p) EXCEPT !.by = s])]
    /\ UNCHANGED <<signals, entries, fwd, hnd, out, parked, cli, tasks, lw,
                   thr, calls>>

raw_frame(s, n) ==
    /\ cnt.raw < MaxRaw
    /\ cnt' = [cnt EXCEPT !.raw = @ + 1]
    /\ inq' = [inq EXCEPT ![s] =
                 Append(@, [Update("ReadOnly", n, <<OpReplace(Root, JInt(1))>>)
                              EXCEPT !.by = s])]
    /\ UNCHANGED <<signals, entries, fwd, hnd, out, parked, cli, tasks, lw,
                   thr, calls>>

(***************************************************************************)
(* The protocol: both signals exist on the server, the clients create      *)
(* theirs, the server and the clients write.                               *)
(***************************************************************************)
Init ==
    /\ entries = <<NewEntry("ReadOnly", "vec", "ro", Default("vec")),
                   NewEntry("BiDirectional", "i32", "bi", Default("i32"))>>
    /\ signals = [n \in Names |-> IF n = "ro" THEN 1 ELSE 2]
    /\ fwd = <<>>
    /\ hnd = [s \in Sessions |-> HndIdle]
    /\ inq = [s \in Sessions |-> <<>>]
    /\ out = [s \in Sessions |-> <<>>]
    /\ parked = [s \in Sessions |-> <<>>]
    /\ cli = [c \in Sessions |-> [n \in Names |-> Absent]]
    /\ tasks = [c \in Sessions |-> <<>>]
    /\ lw = [n \in Names |-> [pc |-> "idle", h |-> IF n = "ro" THEN 1 ELSE 2,
                              patch |-> <<>>, writes |-> 0, noop |-> FALSE,
                              did_update |-> TRUE]]
    /\ thr = [t \in Threads |-> ThrIdle]
    /\ calls = <<>>
    /\ cnt = [writes |-> 0, calls |-> 0, raw |-> 0, re |-> 0]

(***************************************************************************)
(* Server: ServerReadOnlySignal::new and ServerBidirectionalSignal::new.   *)
(* Server functions run on a multi threaded runtime and call new() for the *)
(* signals they use, so calls overlap: contains, get_signal and            *)
(* create_signal are three separate operations on the DashMap.             *)
(***************************************************************************)
\* as_any().downcast_ref::<T>(): the entry is a T of the caller
Downcasts(ent, kind, ty) == ent.kind = kind /\ ent.ty = ty

\* WsSignals::create_signal of the server build: insert puts the new entry
\* under the name, whatever was there
create_signal(sigs, ents, n, ent) ==
    [res |-> IF sigs[n] = 0 THEN "Ok" ELSE "AddingSignalFailed",
     signals |-> [sigs EXCEPT ![n] = Len(ents) + 1],
     entries |-> Append(ents, ent)]

\* a completed call: bound is the entry the name was bound to when the call
\* began (0: none), cur the entry it was bound to right before the call
\* ended, h the handle returned, changed whether the last step of the call
\* changed the registry or an entry
Call(t, res, h, cur, changed) ==
    [name |-> thr[t].name, kind |-> thr[t].kind, ty |-> thr[t].ty,
     init |-> thr[t].init, bound |-> thr[t].bound, res |-> res, h |-> h,
     cur |-> cur, changed |-> changed]

\* new(), the test signals.contains(&name)
new_contains(t, n, kind, v) ==
    /\ thr[t].pc = "idle"
    /\ cnt.calls < MaxCalls
    /\ cnt' = [cnt EXCEPT !.calls = @ + 1]
    /\ thr' = [thr EXCEPT ![t] =
                 [pc |-> IF contains(n) THEN "get" ELSE "create", name |-> n,
                  kind |-> kind, ty |-> v.ty, init |-> v,
                  bound |-> signals[n]]]
    /\ UNCHANGED <<signals, entries, fwd, hnd, inq, out, parked, cli, tasks,
                   lw, calls>>

\* new(), the name is bound: signals.get_signal::<Self>(name).unwrap(), where
\* get_signal unwraps the downcast
new_get_signal(t) ==
    LET e == signals[thr[t].name]
        ok == e # 0 /\ Downcasts(entries[e], thr[t].kind, thr[t].ty)
    IN /\ thr[t].pc = "get"
       /\ calls' = Append(calls, Call(t, IF ok THEN "Ok" ELSE "panic",
                                      IF ok THEN e ELSE 0, e, FALSE))
       /\ thr' = [thr EXCEPT ![t] = ThrIdle]
       /\ UNCHANGED <<signals, entries, fwd, hnd, inq, out, parked, cli,
                      tasks, lw, cnt>>

\* new(), the name is not bound: the entry is built and handed to
\* create_signal, whose result is unwrapped
new_create_signal(t) ==
    LET n == thr[t].name
        r == create_signal(signals, entries, n,
                           NewEntry(thr[t].kind, thr[t].ty, n, thr[t].init))
    IN /\ thr[t].pc = "create"
       /\ signals' = r.signals
       /\ entries' = r.entries
       /\ calls' = Append(calls, Call(t, IF r.res = "Ok" THEN "Ok" ELSE "panic",
                                      IF r.res = "Ok" THEN Len(entries) + 1
                                      ELSE 0,
                                      signals[n], TRUE))
       /\ thr' = [thr EXCEPT ![t] = ThrIdle]
       /\ UNCHANGED <<fwd, hnd, inq, out, parked, cli, tasks, lw, cnt>>

\* WsSignals::delete_signal as a call of a server thread, with its result:
\* signals.remove(name) unbinds the name when it is bound; the result of
\* delete() on the removed entry is not looked at
DeleteCall(n, res) ==
    [name |-> n, kind |-> "delete", ty |-> "", init |-> TInt(0),
     bound |-> signals[n], res |-> res, h |-> 0, cur |-> signals[n],
     changed |-> signals[n] # 0]

delete_signal_ok(t, n) ==
    /\ thr[t].pc = "idle"
    /\ cnt.calls < MaxCalls
    /\ cnt' = [cnt EXCEPT !.calls = @ + 1]
    /\ signals' = [signals EXCEPT ![n] = 0]
    /\ calls' = Append(calls, DeleteCall(n, "Ok"))
    /\ UNCHANGED <<entries, fwd, hnd, inq, out, parked, cli, tasks, lw, thr>>

delete_signal_call(t, n) ==
    /\ thr[t].pc = "idle"
    /\ cnt.calls < MaxCalls
    /\ cnt' = [cnt EXCEPT !.calls = @ + 1]
    /\ signals' = [signals EXCEPT ![n] = 0]
    /\ calls' = Append(calls, DeleteCall(n, IF signals[n] # 0 THEN "Ok"
                                            ELSE "DeletingSignalFailed"))
    /\ UNCHANGED <<entries, fwd, hnd, inq, out, parked, cli, tasks, lw, thr>>

(***************************************************************************)
(* Channels: named message streams without state.  The registry keeps them *)
(* in WsSignals.channels, a map of its own, which the model holds in       *)
(* signals (and in cli) under keys that no signal has.                     *)
(***************************************************************************)
Channels == {"echo"}

\* the key under which the channel named n is held: the channel named like
\* the signal "bi" has a key of its own
ChanKey(n) == IF n = "bi" THEN "bi (channel)" ELSE n

\* the payloads: JSON strings, numbered so that two messages can be told
\* apart.  The i-th message client c sends is ClientText(c, i), the server's
\* own messages are JText(1), JText(2), ...
JText(i) == [t |-> "str", n |-> i, a |-> <<>>]
ClientText(c, i) == JText(10 * c + i)

\* ServerChannelSignal: callback tells whether on_server has registered the
\* closure of the application, which sends every message back; seq and log
\* are the number and the payloads of the messages sent so far, invoked the
\* messages the callback has been called with
ChannelEntry(n, cb) ==
    [kind |-> "Channel", ty |-> "str", name |-> n, callback |-> cb,
     seq |-> 0, log |-> <<>>, invoked |-> <<>>]

\* what send_message hands to the observers: (None, Channel.Message(name,
\* json)); by is the client whose message the server sends back, if any
ChannelEventBlank(ent, v, by) ==
    [origin |-> None,
     frame |-> [ChannelMessage(ent.name, JText(0)) EXCEPT !.by = by,
                                                          !.seq = ent.seq + 1]]

ChannelEvent(ent, v, by) ==
    [origin |-> None,
     frame |-> [ChannelMessage(ent.name, v) EXCEPT !.by = by,
                                                   !.seq = ent.seq + 1]]

\* ServerChannelSignal::send_message, called by the server application
send_message(n) ==
    LET e == signals[ChanKey(n)]
        v == JText(Len(entries[e].log) + 1)
    IN /\ e # 0
       /\ cnt.writes < MaxWrites
       /\ cnt' = [cnt EXCEPT !.writes = @ + 1]
       /\ entries' = [entries EXCEPT ![e].seq = @ + 1, ![e].log = Append(@, v)]
       /\ fwd' = Send(fwd, e, ChannelEvent(entries[e], v, None))
       /\ UNCHANGED <<signals, hnd, inq, out, parked, cli, tasks, lw, thr,
                      calls>>

\* the session reads ChannelMessage::Message: WsSignals::handle_message calls
\* handle_message of the channel bound to the name, which calls the
\* callback, if one is registered, with the message, if it is a T; the
\* callback of the application calls send_message with the message
handle_message_any(s) ==
    LET f == Head(inq[s])
        e == signals[ChanKey(f.name)]
    IN /\ hnd[s].pc = "idle"
       /\ inq[s] # <<>>
       /\ f.tag = "Channel.Message"
       /\ inq' = [inq EXCEPT ![s] = Tail(@)]
       /\ IF e = 0 \/ ~entries[e].callback
          THEN UNCHANGED <<entries, fwd>>
          ELSE /\ entries' = [entries EXCEPT ![e].seq = @ + 1,
                                             ![e].log = Append(@, f.val),
                                             ![e].invoked = Append(@, f.val)]
               /\ fwd' = Send(fwd, e, ChannelEvent(entries[e], f.val, f.by))
       /\ UNCHANGED <<signals, hnd, out, parked, cli, tasks, lw, thr, calls,
                      cnt>>

handle_message(s) ==
    LET f == Head(inq[s])
        e == signals[ChanKey(f.name)]
    IN /\ hnd[s].pc = "idle"
       /\ inq[s] # <<>>
       /\ f.tag = "Channel.Message"
       /\ inq' = [inq EXCEPT ![s] = Tail(@)]
       /\ IF e = 0 \/ ~entries[e].callback
             \/ ~FromValueOk(entries[e].ty, f.val)
          THEN UNCHANGED <<entries, fwd>>
          ELSE /\ entries' = [entries EXCEPT ![e].seq = @ + 1,
                                             ![e].log = Append(@, f.val),
                                             ![e].invoked = Append(@, f.val)]
               /\ fwd' = Send(fwd, e, ChannelEvent(entries[e], f.val, f.by))
       /\ UNCHANGED <<signals, hnd, out, parked, cli, tasks, lw, thr, calls,
                      cnt>>

\* a peer of the websocket sends a Channel.Message of its own making
raw_message(s, n, v) ==
    /\ cnt.raw < MaxRaw
    /\ cnt' = [cnt EXCEPT !.raw = @ + 1]
    /\ inq' = [inq EXCEPT ![s] = Append(@, [ChannelMessage(n, v) EXCEPT !.by = s])]
    /\ UNCHANGED <<signals, entries, fwd, hnd, out, parked, cli, tasks, lw,
                   thr, calls>>

\* ChannelMessage::Establish, first statement:
\* server_signals.add_observer_channel(&name).unwrap(); from is the number
\* of messages sent before the receiver was subscribed
add_observer_channel(s) ==
    LET f == Head(inq[s])
        e == signals[ChanKey(f.name)]
    IN /\ hnd[s].pc = "idle"
       /\ inq[s] # <<>>
       /\ f.tag = "Channel.Establish"
       /\ inq' = [inq EXCEPT ![s] = Tail(@)]
       /\ IF e = 0
          THEN /\ hnd' = [hnd EXCEPT ![s].pc = "panicked"]
               /\ fwd' = fwd
          ELSE /\ fwd' = Append(fwd, [sess |-> s, entry |-> e, buf |-> <<>>,
                                      st |-> "subscribed", lagged |-> FALSE,
                                      skipped |-> 0, from |-> entries[e].seq])
               /\ hnd' = [hnd EXCEPT ![s] = [pc |-> "subscribed_channel",
                                             name |-> f.name, tag |-> f.tag,
                                             fw |-> Len(fwd) + 1]]
       /\ UNCHANGED <<signals, entries, out, parked, cli, tasks, lw, thr,
                      calls, cnt>>

\* ChannelMessage::Establish, tx.send(EstablishResponse(name)); the spawn of
\* the forwarder that follows is spawn_handle_broadcasts
send_channel_response(s) ==
    LET q == Enqueue(out[s], parked[s], 0, ChannelEstablishResponse(hnd[s].name))
    IN /\ hnd[s].pc = "subscribed_channel"
       /\ out' = [out EXCEPT ![s] = q.q]
       /\ parked' = [parked EXCEPT ![s] = q.pk]
       /\ hnd' = [hnd EXCEPT ![s].pc = "responded"]
       /\ UNCHANGED <<signals, entries, fwd, inq, cli, tasks, lw, thr, calls,
                      cnt>>
\* ClientChannelSignal::new with WsSignals::create_channel of the client
\* build, followed by on_client as the application calls it: a bound name
\* returns the channel that is there, an unbound name is inserted and
\* Establish is sent; the callback is registered on the channel
client_channel_new(c, n) ==
    /\ tasks[c] = <<>>
    /\ cnt.calls < MaxCalls
    /\ cnt' = [cnt EXCEPT !.calls = @ + 1]
    /\ IF cli[c][ChanKey(n)].present
       THEN /\ cli' = [cli EXCEPT ![c][ChanKey(n)].news = @ + 1,
                                  ![c][ChanKey(n)].callback = TRUE]
            /\ inq' = inq
       ELSE /\ cli' = [cli EXCEPT ![c][ChanKey(n)] =
                          [Absent EXCEPT !.present = TRUE, !.kind = "Channel",
                                         !.ty = "str", !.news = 1,
                                         !.callback = TRUE]]
            /\ inq' = [inq EXCEPT ![c] = ws_send(c, ChannelEstablish(n))]
    /\ UNCHANGED <<signals, entries, fwd, hnd, out, parked, tasks, lw, thr,
                   calls>>

\* ClientChannelSignal::send_message: the message goes to the receivers the
\* channel has handed out, the result of observers.send is not looked at and
\* Ok(()) is returned
client_send_message(c, n) ==
    LET ent == cli[c][ChanKey(n)]
        f == [ChannelMessage(n, ClientText(c, ent.sent + 1))
                EXCEPT !.by = c, !.seq = ent.sent + 1]
    IN /\ tasks[c] = <<>>
       /\ ent.present
       /\ ent.kind = "Channel"
       /\ cnt.writes < MaxWrites
       /\ cnt' = [cnt EXCEPT !.writes = @ + 1]
       /\ cli' = [cli EXCEPT ![c][ChanKey(n)] =
                     ClientSend([ent EXCEPT !.sent = @ + 1], f)]
       /\ UNCHANGED <<signals, entries, fwd, hnd, inq, out, parked, tasks,
                      lw, thr, calls>>

\* one turn of the receive loop for a frame of Messages::Channel:
\* EstablishResponse subscribes a receiver and spawns
\* handle_broadcasts_client for it; Message goes to handle_message of the
\* channel, which calls the callback when one is registered (heard is the
\* list of its calls); Establish is ignored
receive_channel(c) ==
    LET f == Head(out[c])
        ent == cli[c][ChanKey(f.name)]
    IN /\ out[c] # <<>>
       /\ tasks[c] = <<>>
       /\ IsChannel(f)
       /\ out' = [out EXCEPT ![c] = Tail(@)]
       /\ parked' = [parked EXCEPT ![c] = IF @ = <<>> THEN @ ELSE Tail(@)]
       /\ cli' = IF ~ent.present THEN cli
                 ELSE IF f.tag = "Channel.EstablishResponse"
                 THEN [cli EXCEPT ![c][ChanKey(f.name)].bufs = Append(@, <<>>),
                                  ![c][ChanKey(f.name)].established = @ + 1]
                 ELSE IF f.tag = "Channel.Message" /\ ent.callback
                         /\ FromValueOk(ent.ty, f.val)
                 THEN [cli EXCEPT ![c][ChanKey(f.name)].heard =
                         Append(@, [val |-> f.val, seq |-> f.seq])]
                 ELSE cli
       /\ UNCHANGED <<signals, entries, fwd, hnd, inq, tasks, lw, thr, calls,
                      cnt>>

\* ServerChannelSignal::new with WsSignals::create_channel of the server
\* build: a bound name returns the channel that is there, an unbound name
\* is inserted into channels, with no callback yet
channel_new_shared(n) ==
    /\ cnt.calls < MaxCalls
    /\ cnt' = [cnt EXCEPT !.calls = @ + 1]
    /\ entries' = Append(entries, ChannelEntry(n, FALSE))
    /\ signals' = [signals EXCEPT ![n] = Len(entries) + 1]
    /\ UNCHANGED <<fwd, hnd, inq, out, parked, cli, tasks, lw, thr, calls>>

channel_new(n) ==
    /\ cnt.calls < MaxCalls
    /\ cnt' = [cnt EXCEPT !.calls = @ + 1]
    /\ IF signals[ChanKey(n)] # 0
       THEN UNCHANGED <<entries, signals>>
       ELSE /\ entries' = Append(entries, ChannelEntry(n, FALSE))
            /\ signals' = [signals EXCEPT ![ChanKey(n)] = Len(entries) + 1]
    /\ UNCHANGED <<fwd, hnd, inq, out, parked, cli, tasks, lw, thr, calls>>

\* ServerChannelSignal::on_server on a handle of the channel bound to n:
\* the callback is stored
on_server(n) ==
    LET e == signals[ChanKey(n)]
    IN /\ e # 0
       /\ ~entries[e].callback
       /\ entries' = [entries EXCEPT ![e].callback = TRUE]
       /\ UNCHANGED <<signals, fwd, hnd, inq, out, parked, cli, tasks, lw,
                      thr, calls, cnt>>

\* WsSignals::delete_channel: the binding is removed from channels
delete_channel(n) ==
    /\ signals[ChanKey(n)] # 0
    /\ signals' = [signals EXCEPT ![ChanKey(n)] = 0]
    /\ UNCHANGED <<entries, fwd, hnd, inq, out, parked, cli, tasks, lw, thr,
                   calls, cnt>>

\* ClientSignals::reconnect: an Establish is sent for every key of the
\* registry.  The registry is a HashMap, whose keys() come in an order of
\* its own; ws.send queues each frame.
Keys(c) == {n \in DOMAIN cli[c] : cli[c][n].present}
Orders(K) ==
    {ks \in [1..Cardinality(K) -> K] :
        \A i, j \in DOMAIN ks : ks[i] = ks[j] => i = j}

reconnect_all(c) ==
    /\ tasks[c] = <<>>
    /\ cnt.re < MaxRe
    /\ cnt' = [cnt EXCEPT !.re = @ + 1]
    /\ \E ks \in Orders(DOMAIN cli[c]) :
           inq' = [inq EXCEPT ![c] =
                     @ \o [i \in DOMAIN ks |-> Establish("ReadOnly", ks[i])]]
    /\ UNCHANGED <<signals, entries, fwd, hnd, out, parked, cli, tasks, lw,
                   thr, calls>>

reconnect(c) ==
    /\ tasks[c] = <<>>
    /\ cnt.re < MaxRe
    /\ cnt' = [cnt EXCEPT !.re = @ + 1]
    /\ \E ks \in Orders(Keys(c)) :
           inq' = [inq EXCEPT ![c] =
                     @ \o [i \in DOMAIN ks |-> Establish("ReadOnly", ks[i])]]
    /\ UNCHANGED <<signals, entries, fwd, hnd, out, parked, cli, tasks, lw,
                   thr, calls>>

\* client c holds signal n and has applied an EstablishResponse for it
Established(c, n) == cli[c][n].present /\ cli[c][n].established > 0

\* the steps of the server for the signals N, written with values of V
ServerSteps(N, V) ==
    \/ \E n \in N : \E v \in Written(V, entries[lw[n].h].value) :
           try_maybe_update(n, v)
    \/ \E n \in N : update_if_changed(n)
    \/ \E n \in N : update_json_local(n)
    \/ \E s \in Sessions : add_observer(s)
    \/ \E s \in Sessions : send_establish_response(s)
    \/ \E s \in Sessions : spawn_handle_broadcasts(s)
    \/ \E k \in DOMAIN fwd : handle_broadcasts(k)

\* the application of each client of C creates each of its signals once
ClientCreates(C, N) ==
    \E c \in C, n \in N :
        ~cli[c][n].present /\ client_new(c, n, Default(TypeOf(n)))

ClientSteps ==
    \/ \E c \in Sessions : receive(c)
    \/ \E c \in Sessions : client_update(c)

ClientWrites(N, V) ==
    \/ \E c \in Sessions, n \in N :
           \E v \in Written(V, cli[c][n].value) :
               client_try_maybe_update(c, n, v)
    \/ \E c \in Sessions, n \in N :
           \E k \in DOMAIN cli[c][n].bufs : handle_broadcasts_client(c, n, k)
    \/ \E s \in Sessions : update(s)

\* a bidirectional signal written by the server and by its clients
Next ==
    \/ ServerSteps({"bi"}, Bits)
    \/ ClientCreates(Sessions, {"bi"})
    \/ ClientSteps
    \/ ClientWrites({"bi"}, Bits)

Spec == Init /\ [][Next]_vars

\* the same, the writers choosing among three values
NextRace ==
    \/ ServerSteps({"bi"}, Vals)
    \/ ClientCreates(Sessions, {"bi"})
    \/ ClientSteps
    \/ ClientWrites({"bi"}, Vals)

SpecRace == Init /\ [][NextRace]_vars

\* a read-only signal written by the server while clients join
NextRo ==
    \/ ServerSteps({"ro"}, Bits)
    \/ ClientCreates(Sessions, {"ro"})
    \/ ClientSteps

SpecRo == Init /\ [][NextRo]_vars

\* session 1 is a peer that sends updates of its own making for the
\* bidirectional signal, session 2 a client that holds the signal
NextRawBi ==
    \/ ServerSteps({"bi"}, Bits)
    \/ ClientCreates({2}, {"bi"})
    \/ ClientSteps
    \/ \E s \in Sessions : update(s)
    \/ \E p \in RawPatches("i32") : raw_update(1, "bi", p)
    \/ raw_frame(1, "bi")
    \/ \E s \in Sessions : unexpected_message(s)

SpecRawBi == Init /\ [][NextRawBi]_vars

\* the same for the read-only signal
NextRawRo ==
    \/ ServerSteps({"ro"}, Bits)
    \/ ClientCreates({2}, {"ro"})
    \/ ClientSteps
    \/ \E s \in Sessions : update(s)
    \/ \E p \in RawPatches("vec") : raw_update(1, "ro", p)
    \/ raw_frame(1, "ro")
    \/ \E s \in Sessions : unexpected_message(s)

SpecRawRo == Init /\ [][NextRawRo]_vars

\* the steps of the server for the signals N other than the closures of
\* its local writes
ServerApplies(N) ==
    \/ \E n \in N : update_if_changed(n)
    \/ \E n \in N : update_json_local(n)
    \/ \E s \in Sessions : add_observer(s)
    \/ \E s \in Sessions : send_establish_response(s)
    \/ \E s \in Sessions : spawn_handle_broadcasts(s)
    \/ \E k \in DOMAIN fwd : handle_broadcasts(k)

\* the increments of the two writers: count.update(|value| *value += d)
ServerDelta == 10
ClientDelta == 1

\* the clients hold the bidirectional signal; once client 1 is established
\* it adds ClientDelta to its value and the server adds ServerDelta
NextAdd ==
    \/ ServerApplies({"bi"})
    \/ ClientCreates(Sessions, {"bi"})
    \/ ClientSteps
    \/ /\ Established(1, "bi")
       /\ try_maybe_update("bi", TInt(entries[lw["bi"].h].value.n + ServerDelta))
    \/ /\ Established(1, "bi")
       /\ client_try_maybe_update(1, "bi",
                                  TInt(cli[1]["bi"].value.n + ClientDelta))
    \/ \E k \in DOMAIN cli[1]["bi"].bufs : handle_broadcasts_client(1, "bi", k)
    \/ \E s \in Sessions : update(s)

SpecAdd == Init /\ [][NextAdd]_vars

\* a receiver that is full.  Client 2 was established on the bidirectional
\* signal while it was 0; the server has since written it BroadcastCap
\* times (1, 0, 1, ...), and the forwarder of session 2 has not run yet.
LagPatch(i) == <<OpReplace(Root, JInt(i % 2))>>
LagEntry(i) ==
    [NewEntry("BiDirectional", "i32", "bi", Default("i32")) EXCEPT
        !.value = TInt(i % 2), !.json_value = JInt(i % 2), !.seq = i]
LagEvents == [i \in 1..BroadcastCap |-> Event(LagEntry(i - 1), LagPatch(i), None, None)]

InitLag ==
    /\ entries = <<NewEntry("ReadOnly", "vec", "ro", Default("vec")),
                   LagEntry(BroadcastCap)>>
    /\ signals = [n \in Names |-> IF n = "ro" THEN 1 ELSE 2]
    /\ fwd = <<[sess |-> 2, entry |-> 2, buf |-> LagEvents, st |-> "running",
                lagged |-> FALSE, skipped |-> 0]>>
    /\ hnd = [s \in Sessions |-> HndIdle]
    /\ inq = [s \in Sessions |-> <<>>]
    /\ out = [s \in Sessions |-> <<>>]
    /\ parked = [s \in Sessions |-> <<>>]
    /\ cli = [c \in Sessions |->
                [n \in Names |->
                    IF c = 2 /\ n = "bi"
                    THEN [Absent EXCEPT !.present = TRUE,
                                        !.kind = "BiDirectional", !.ty = "i32",
                                        !.bufs = <<<<>>>>, !.news = 1,
                                        !.established = 1]
                    ELSE Absent]]
    /\ tasks = [c \in Sessions |-> <<>>]
    /\ lw = [n \in Names |-> [pc |-> "idle", h |-> IF n = "ro" THEN 1 ELSE 2,
                              patch |-> <<>>,
                              writes |-> IF n = "bi" THEN BroadcastCap ELSE 0,
                              noop |-> FALSE,
                              did_update |-> TRUE]]
    /\ thr = [t \in Threads |-> ThrIdle]
    /\ calls = <<>>
    /\ cnt = [writes |-> 0, calls |-> 0, raw |-> 0, re |-> 0]

\* the server goes on writing, the forwarder and client 2 run, client 1 joins
NextLag ==
    \/ ServerSteps({"bi"}, Bits)
    \/ ClientCreates({1}, {"bi"})
    \/ ClientSteps

SpecLag == InitLag /\ [][NextLag]_vars

\* the registries: server threads and clients call new()
InitNew ==
    /\ entries = <<>>
    /\ signals = [n \in Names |-> 0]
    /\ fwd = <<>>
    /\ hnd = [s \in Sessions |-> HndIdle]
    /\ inq = [s \in Sessions |-> <<>>]
    /\ out = [s \in Sessions |-> <<>>]
    /\ parked = [s \in Sessions |-> <<>>]
    /\ cli = [c \in Sessions |-> [n \in Names |-> Absent]]
    /\ tasks = [c \in Sessions |-> <<>>]
    /\ lw = [n \in Names |-> [pc |-> "idle", h |-> 0, patch |-> <<>>,
                              writes |-> 0, noop |-> FALSE,
                              did_update |-> TRUE]]
    /\ thr = [t \in Threads |-> ThrIdle]
    /\ calls = <<>>
    /\ cnt = [writes |-> 0, calls |-> 0, raw |-> 0, re |-> 0]

\* the signal types and the initial values the callers of new() pass
Inits == {TInt(0), TInt(1), TVec(<<>>)}
Kinds == {"ReadOnly", "BiDirectional"}

\* the callers use one name: calls for different names do not meet
NextNew ==
    \/ \E t \in Threads, kind \in Kinds, v \in Inits :
           new_contains(t, "bi", kind, v)
    \/ \E t \in Threads : new_get_signal(t)
    \/ \E t \in Threads : new_create_signal(t)
    \/ \E v \in Inits : client_new(1, "bi", v)

SpecNew == InitNew /\ [][NextNew]_vars

\* clients whose registry is ClientSignals: client 1 holds the two read-only
\* signals, the server writes one of them once, and the transport of a client
\* reopens at any time, on which reconnect is called
InitRe ==
    /\ entries = <<NewEntry("ReadOnly", "vec", "ro", Default("vec")),
                   NewEntry("ReadOnly", "i32", "count", Default("i32"))>>
    /\ signals = [n \in ReadOnlyNames |-> IF n = "ro" THEN 1 ELSE 2]
    /\ fwd = <<>>
    /\ hnd = [s \in Sessions |-> HndIdle]
    /\ inq = [s \in Sessions |-> <<>>]
    /\ out = [s \in Sessions |-> <<>>]
    /\ parked = [s \in Sessions |-> <<>>]
    /\ cli = [c \in Sessions |-> [n \in ReadOnlyNames |-> Absent]]
    /\ tasks = [c \in Sessions |-> <<>>]
    /\ lw = [n \in Names |-> [pc |-> "idle", h |-> IF n = "ro" THEN 1 ELSE 0,
                              patch |-> <<>>, writes |-> 0, noop |-> FALSE,
                              did_update |-> TRUE]]
    /\ thr = [t \in Threads |-> ThrIdle]
    /\ calls = <<>>
    /\ cnt = [writes |-> 0, calls |-> 0, raw |-> 0, re |-> 0]

NextRe ==
    \/ /\ lw["ro"].writes = 0
       /\ \E v \in Written(Bits, entries[lw["ro"].h].value) :
              try_maybe_update("ro", v)
    \/ update_if_changed("ro")
    \/ update_json_local("ro")
    \/ \E s \in Sessions : add_observer(s)
    \/ \E s \in Sessions : send_establish_response(s)
    \/ \E s \in Sessions : spawn_handle_broadcasts(s)
    \/ \E k \in DOMAIN fwd : handle_broadcasts(k)
    \/ ClientCreates({1}, ReadOnlyNames)
    \/ ClientSteps
    \/ \E c \in Sessions : reconnect(c)

SpecRe == InitRe /\ [][NextRe]_vars

\* the websocket of client c opens: leptos_ws_websocket runs on the server
\* and its inbound task starts to read the frames of the client
open(c) ==
    /\ hnd[c].pc = "closed"
    /\ hnd' = [hnd EXCEPT ![c] = HndIdle]
    /\ UNCHANGED <<signals, entries, fwd, inq, out, parked, cli, tasks, lw,
                   thr, calls, cnt>>

\* the application creates its signals while the websocket of its client may
\* not be open yet: the server holds the three signals, no transport is open
AllNames == Names \cup ReadOnlyNames

InitOpen ==
    /\ entries = <<NewEntry("ReadOnly", "vec", "ro", Default("vec")),
                   NewEntry("BiDirectional", "i32", "bi", Default("i32")),
                   NewEntry("ReadOnly", "i32", "count", Default("i32"))>>
    /\ signals = [n \in AllNames |->
                    IF n = "ro" THEN 1 ELSE IF n = "bi" THEN 2 ELSE 3]
    /\ fwd = <<>>
    /\ hnd = [s \in Sessions |-> [HndIdle EXCEPT !.pc = "closed"]]
    /\ inq = [s \in Sessions |-> <<>>]
    /\ out = [s \in Sessions |-> <<>>]
    /\ parked = [s \in Sessions |-> <<>>]
    /\ cli = [c \in Sessions |-> [n \in AllNames |-> Absent]]
    /\ tasks = [c \in Sessions |-> <<>>]
    /\ lw = [n \in Names |-> [pc |-> "idle", h |-> IF n = "ro" THEN 1 ELSE 2,
                              patch |-> <<>>, writes |-> 0, noop |-> FALSE,
                              did_update |-> TRUE]]
    /\ thr = [t \in Threads |-> ThrIdle]
    /\ calls = <<>>
    /\ cnt = [writes |-> 0, calls |-> 0, raw |-> 0, re |-> 0]

NextOpen ==
    \/ \E c \in Sessions : open(c)
    \/ ClientCreates({1}, AllNames)
    \/ ClientCreates({2}, {"bi"})
    \/ \E s \in Sessions : add_observer(s)
    \/ \E s \in Sessions : send_establish_response(s)
    \/ \E s \in Sessions : spawn_handle_broadcasts(s)
    \/ \E c \in Sessions : receive(c)

\* the runtime of the server runs the inbound task of an open session, the
\* executor of the client runs its receive loop
FairOpen ==
    \A s \in Sessions :
        /\ WF_vars(add_observer(s))
        /\ WF_vars(send_establish_response(s))
        /\ WF_vars(spawn_handle_broadcasts(s))
        /\ WF_vars(receive(s))

SpecOpen == InitOpen /\ [][NextOpen]_vars /\ FairOpen

\* Deletion.  An entry is one struct behind clones that share observers
\* (Arc<Sender>): the registry holds one clone, every handle new() has
\* returned another.  The broadcast channel of tokio is closed, and recv of
\* a drained receiver returns Closed, once every Sender is dropped.
Registered(e) == \E n \in DOMAIN signals : signals[n] = e
Held(e) == \E n \in DOMAIN lw : lw[n].h = e
Closed(e) == ~Registered(e) /\ ~Held(e)

\* WsSignals::delete_signal: the name is removed from the map, which drops
\* the clone of the registry.  delete(&self) of the entry has no Sender of
\* its own to drop: observers is shared with the handles.
delete_signal(n) ==
    /\ signals[n] # 0
    /\ signals' = [signals EXCEPT ![n] = 0]
    /\ UNCHANGED <<entries, fwd, hnd, inq, out, parked, cli, tasks, lw, thr,
                   calls, cnt>>

\* the server task that writes signal n ends and its handle is dropped
drop_handle(n) ==
    /\ lw[n].pc = "idle"
    /\ lw[n].h # 0
    /\ lw' = [lw EXCEPT ![n].h = 0]
    /\ UNCHANGED <<signals, entries, fwd, hnd, inq, out, parked, cli, tasks,
                   thr, calls, cnt>>

\* handle_broadcasts, the turn of the loop in which recv returns Closed:
\* `while let Ok(..)` ends
handle_broadcasts_closed(k) ==
    /\ fwd[k].st = "running"
    /\ ~IsParked(fwd[k].sess, k)
    /\ fwd[k].buf = <<>>
    /\ Closed(fwd[k].entry)
    /\ fwd' = [fwd EXCEPT ![k].st = "done"]
    /\ UNCHANGED <<signals, entries, hnd, inq, out, parked, cli, tasks, lw,
                   thr, calls, cnt>>

\* a bidirectional signal that the server writes through a handle it holds,
\* deletes at some time, and whose handle it may drop
NextDel ==
    \/ /\ lw["bi"].h # 0
       /\ \E v \in Written(Bits, entries[lw["bi"].h].value) :
              try_maybe_update("bi", v)
    \/ update_if_changed("bi")
    \/ update_json_local("bi")
    \/ \E s \in Sessions : add_observer(s)
    \/ \E s \in Sessions : send_establish_response(s)
    \/ \E s \in Sessions : spawn_handle_broadcasts(s)
    \/ \E k \in DOMAIN fwd : handle_broadcasts(k)
    \/ \E k \in DOMAIN fwd : handle_broadcasts_closed(k)
    \/ ClientCreates(Sessions, {"bi"})
    \/ ClientSteps
    \/ delete_signal("bi")
    \/ drop_handle("bi")

\* the runtime of the server runs every task that can run, the executor of
\* the client runs its receive loop and its tasks; when the application
\* writes, deletes or drops a handle is up to it
Forwarders == 1..Cardinality(Sessions)
FairDel ==
    /\ WF_vars(update_if_changed("bi"))
    /\ WF_vars(update_json_local("bi"))
    /\ \A s \in Sessions :
          /\ WF_vars(add_observer(s))
          /\ WF_vars(send_establish_response(s))
          /\ WF_vars(spawn_handle_broadcasts(s))
          /\ WF_vars(receive(s))
          /\ WF_vars(client_update(s))
    /\ \A k \in Forwarders :
          /\ WF_vars(k \in DOMAIN fwd /\ handle_broadcasts(k))
          /\ WF_vars(k \in DOMAIN fwd /\ handle_broadcasts_closed(k))

SpecDel == Init /\ [][NextDel]_vars /\ FairDel

\* the websocket of session s closes while its inbound task waits for the
\* next frame: input.next() returns None and the task ends, the stream that
\* was returned to the framework (rx) is dropped with the frames it holds,
\* and senders parked on it are woken
close(s) ==
    /\ hnd[s].pc = "idle"
    /\ hnd' = [hnd EXCEPT ![s].pc = "gone"]
    /\ inq' = [inq EXCEPT ![s] = <<>>]
    /\ out' = [out EXCEPT ![s] = <<>>]
    /\ parked' = [parked EXCEPT ![s] = <<>>]
    /\ UNCHANGED <<signals, entries, fwd, cli, tasks, lw, thr, calls, cnt>>

\* a bidirectional signal written by the server, with clients whose
\* websocket closes at some time
NextClose ==
    \/ ServerSteps({"bi"}, Bits)
    \/ ClientCreates(Sessions, {"bi"})
    \/ ClientSteps
    \/ \E s \in Sessions : close(s)

FairClose ==
    /\ WF_vars(update_if_changed("bi"))
    /\ WF_vars(update_json_local("bi"))
    /\ \A s \in Sessions :
          /\ WF_vars(add_observer(s))
          /\ WF_vars(send_establish_response(s))
          /\ WF_vars(spawn_handle_broadcasts(s))
          /\ WF_vars(receive(s))
          /\ WF_vars(client_update(s))
    /\ \A k \in Forwarders : WF_vars(k \in DOMAIN fwd /\ handle_broadcasts(k))

SpecClose == Init /\ [][NextClose]_vars /\ FairClose

\* The capacity of a futures mpsc queue is its buffer plus one slot per
\* sender.  The senders of a session are the inbound task and its spawned
\* forwarders; those of a client are the ServerSignalWebSocket, the receive
\* loop, the handle_broadcasts_client tasks and the clone send makes.
Senders(s) ==
    1 + Cardinality({k \in DOMAIN fwd : fwd[k].sess = s /\ fwd[k].st = "running"})
ClientSenders(c) ==
    3 + Cardinality(UNION {{<<n, k>> : k \in DOMAIN cli[c][n].bufs} :
                              n \in DOMAIN cli[c]})

\* an application with many signals: its component has created the
\* read-only signals of Staged, as many as the queue of the client has
\* room for, before the websocket was open, and goes on to create those of
\* AllNames
Staged ==
    <<"s01", "s02", "s03", "s04", "s05", "s06", "s07",
      "s08", "s09", "s10", "s11", "s12", "s13", "s14",
      "s15", "s16", "s17", "s18", "s19", "s20", "s21",
      "s22", "s23", "s24", "s25", "s26", "s27", "s28",
      "s29", "s30", "s31", "s32", "s33", "s34", "s35">>
StagedNames == {Staged[i] : i \in DOMAIN Staged}

InitStage ==
    /\ entries = <<NewEntry("ReadOnly", "vec", "ro", Default("vec")),
                   NewEntry("BiDirectional", "i32", "bi", Default("i32")),
                   NewEntry("ReadOnly", "i32", "count", Default("i32"))>>
                 \o [i \in DOMAIN Staged |->
                        NewEntry("ReadOnly", "i32", Staged[i], Default("i32"))]
    /\ signals = [n \in AllNames \cup StagedNames |->
                    IF n = "ro" THEN 1 ELSE IF n = "bi" THEN 2
                    ELSE IF n = "count" THEN 3
                    ELSE 3 + CHOOSE i \in DOMAIN Staged : Staged[i] = n]
    /\ fwd = <<>>
    /\ hnd = [s \in Sessions |-> [HndIdle EXCEPT !.pc = "closed"]]
    /\ inq = [s \in Sessions |->
                IF s = 1
                THEN [i \in DOMAIN Staged |-> Establish("ReadOnly", Staged[i])]
                ELSE <<>>]
    /\ out = [s \in Sessions |-> <<>>]
    /\ parked = [s \in Sessions |-> <<>>]
    /\ cli = [c \in Sessions |->
                [n \in AllNames \cup StagedNames |->
                    IF c = 1 /\ n \in StagedNames
                    THEN [Absent EXCEPT !.present = TRUE, !.kind = "ReadOnly",
                                        !.ty = "i32", !.news = 1,
                                        !.early = TRUE]
                    ELSE Absent]]
    /\ tasks = [c \in Sessions |-> <<>>]
    /\ lw = [n \in Names |-> [pc |-> "idle", h |-> IF n = "ro" THEN 1 ELSE 2,
                              patch |-> <<>>, writes |-> 0, noop |-> FALSE,
                              did_update |-> TRUE]]
    /\ thr = [t \in Threads |-> ThrIdle]
    /\ calls = <<>>
    /\ cnt = [writes |-> 0, calls |-> 0, raw |-> 0, re |-> 0]

NextStage ==
    \/ open(1)
    \/ ClientCreates({1}, AllNames)
    \/ add_observer(1)
    \/ send_establish_response(1)
    \/ spawn_handle_broadcasts(1)
    \/ receive(1)

SpecStage == InitStage /\ [][NextStage]_vars

\* Frames that cannot be decoded.  A peer sends one to the server as long as
\* the inbound task of its session reads; the inbound task leaves its loop
\* on it (`let Ok(msg) = msg else { break; }`).
raw_garbage(s) ==
    /\ hnd[s].pc # "ended"
    /\ \A i \in DOMAIN inq[s] : inq[s][i] # ErrFrame
    /\ inq' = [inq EXCEPT ![s] = Append(@, ErrFrame)]
    /\ UNCHANGED <<signals, entries, fwd, hnd, out, parked, cli, tasks, lw,
                   thr, calls, cnt>>

decode_error(s) ==
    /\ hnd[s].pc = "idle"
    /\ inq[s] # <<>>
    /\ Head(inq[s]) = ErrFrame
    /\ inq' = [inq EXCEPT ![s] = Tail(@)]
    /\ hnd' = [hnd EXCEPT ![s].pc = "ended"]
    /\ UNCHANGED <<signals, entries, fwd, out, parked, cli, tasks, lw, thr,
                   calls, cnt>>

\* the receive loop of the client gets a message it cannot decode: the item
\* is Err, which is logged, and the loop goes on (`continue`)
receive_error(c) ==
    /\ out[c] # <<>>
    /\ tasks[c] = <<>>
    /\ cnt.raw < MaxRaw
    /\ cnt' = [cnt EXCEPT !.raw = @ + 1]
    /\ out' = [out EXCEPT ![c] = Tail(@)]
    /\ parked' = [parked EXCEPT ![c] = IF @ = <<>> THEN @ ELSE Tail(@)]
    /\ UNCHANGED <<signals, entries, fwd, hnd, inq, cli, tasks, lw, thr,
                   calls>>

\* session 1 is a peer that sends an update and a frame that cannot be
\* decoded, session 2 a client that holds the signal and gets a message it
\* cannot decode
NextErr ==
    \/ ServerSteps({"bi"}, Bits)
    \/ ClientCreates({2}, {"bi"})
    \/ ClientSteps
    \/ \E s \in Sessions : update(s)
    \/ raw_update(1, "bi", <<OpReplace(Root, JInt(1))>>)
    \/ raw_garbage(1)
    \/ \E s \in Sessions : decode_error(s)
    \/ receive_error(2)

SpecErr == Init /\ [][NextErr]_vars

\* the server writes "bi" with update and with maybe_update closures that
\* report false; the clients hold the signal and listen
NextMaybe ==
    \/ ServerSteps({"bi"}, Bits)
    \/ \E v \in Written(Bits, entries[lw["bi"].h].value) :
           try_maybe_update_false("bi", v)
    \/ ClientCreates(Sessions, {"bi"})
    \/ ClientSteps

SpecMaybe == Init /\ [][NextMaybe]_vars

\* a client in a burst of writes.  Client 1 is established on "bi" and has
\* written it ClientBroadcastCap times (1, 0, 1, ...) in one event handler,
\* so its forwarder has not run yet.
BurstFrames ==
    [i \in 1..ClientBroadcastCap |->
        [Update("BiDirectional", "bi", LagPatch(i)) EXCEPT !.by = 1]]

InitBurst ==
    /\ entries = <<NewEntry("ReadOnly", "vec", "ro", Default("vec")),
                   NewEntry("BiDirectional", "i32", "bi", Default("i32"))>>
    /\ signals = [n \in Names |-> IF n = "ro" THEN 1 ELSE 2]
    /\ fwd = <<[sess |-> 1, entry |-> 2, buf |-> <<>>, st |-> "running",
                lagged |-> FALSE, skipped |-> 0]>>
    /\ hnd = [s \in Sessions |-> HndIdle]
    /\ inq = [s \in Sessions |-> <<>>]
    /\ out = [s \in Sessions |-> <<>>]
    /\ parked = [s \in Sessions |-> <<>>]
    /\ cli = [c \in Sessions |->
                [n \in Names |->
                    IF c = 1 /\ n = "bi"
                    THEN [Absent EXCEPT !.present = TRUE,
                                        !.kind = "BiDirectional", !.ty = "i32",
                                        !.value = TInt(ClientBroadcastCap % 2),
                                        !.json_value = JInt(ClientBroadcastCap % 2),
                                        !.bufs = <<BurstFrames>>, !.news = 1,
                                        !.established = 1, !.wrote = TRUE]
                    ELSE Absent]]
    /\ tasks = [c \in Sessions |-> <<>>]
    /\ lw = [n \in Names |-> [pc |-> "idle", h |-> IF n = "ro" THEN 1 ELSE 2,
                              patch |-> <<>>, writes |-> 0, noop |-> FALSE,
                              did_update |-> TRUE]]
    /\ thr = [t \in Threads |-> ThrIdle]
    /\ calls = <<>>
    /\ cnt = [writes |-> 0, calls |-> 0, raw |-> 0, re |-> 0]

\* client 1 goes on writing, its forwarder and its session run
NextBurst ==
    \/ \E v \in Written(Bits, cli[1]["bi"].value) :
           client_try_maybe_update(1, "bi", v)
    \/ \E k \in DOMAIN cli[1]["bi"].bufs : handle_broadcasts_client(1, "bi", k)
    \/ update(1)
    \/ \E k \in DOMAIN fwd : handle_broadcasts(k)

SpecBurst == InitBurst /\ [][NextBurst]_vars

\* the patches of a peer that leave an i32 shadow of 0 as it is: the empty
\* patch and a replace with the value that is there
NoopPatches == {<<>>, <<OpReplace(Root, JInt(0))>>}

\* session 1 is a peer that sends such updates, client 2 holds the signal
NextNoop ==
    \/ ServerSteps({"bi"}, Bits)
    \/ ClientCreates({2}, {"bi"})
    \/ ClientSteps
    \/ \E s \in Sessions : update(s)
    \/ \E p \in NoopPatches : raw_update(1, "bi", p)

SpecNoop == Init /\ [][NextNoop]_vars

\* server threads call new() and delete_signal for one name
NextRemove ==
    \/ \E t \in Threads, kind \in Kinds, v \in Inits :
           new_contains(t, "bi", kind, v)
    \/ \E t \in Threads : new_get_signal(t)
    \/ \E t \in Threads : new_create_signal(t)
    \/ \E t \in Threads : delete_signal_call(t, "bi")

SpecRemove == InitNew /\ [][NextRemove]_vars

\* a client that writes its bidirectional signal as soon as it has created
\* it: both clients create "bi", client 1 writes it, the sessions and the
\* forwarders run; the server itself does not write
NextEarly ==
    \/ ClientCreates(Sessions, {"bi"})
    \/ \E v \in Written(Bits, cli[1]["bi"].value) :
           client_try_maybe_update(1, "bi", v)
    \/ \E c \in Sessions : \E k \in DOMAIN cli[c]["bi"].bufs :
           handle_broadcasts_client(c, "bi", k)
    \/ \E s \in Sessions : add_observer(s)
    \/ \E s \in Sessions : send_establish_response(s)
    \/ \E s \in Sessions : spawn_handle_broadcasts(s)
    \/ \E s \in Sessions : update(s)
    \/ \E k \in DOMAIN fwd : handle_broadcasts(k)
    \/ \E c \in Sessions : receive(c)
    \/ \E c \in Sessions : client_update(c)

\* every task that can run does run: the inbound task of each session, the
\* forwarders, the receive loop of each client and its forwarders
FairEarly ==
    /\ \A s \in Sessions :
          /\ WF_vars(add_observer(s))
          /\ WF_vars(send_establish_response(s))
          /\ WF_vars(spawn_handle_broadcasts(s))
          /\ WF_vars(update(s))
          /\ WF_vars(receive(s))
          /\ WF_vars(client_update(s))
          /\ WF_vars(\E k \in DOMAIN cli[s]["bi"].bufs :
                        handle_broadcasts_client(s, "bi", k))
    /\ \A k \in Forwarders : WF_vars(k \in DOMAIN fwd /\ handle_broadcasts(k))

SpecEarly == Init /\ [][NextEarly]_vars /\ FairEarly

\* a channel named like a signal.  The server holds the signals "ro" and
\* "bi", client 1 is established on "bi"; the server and the clients then
\* create, use and delete a channel that is named "bi" as well.
SameName == {"bi"}

\* the payloads of a peer: a string, which is a T of the channel, and a
\* number, which is none
RawTexts == {JText(7), JInt(7)}
Keyed == Names \cup {ChanKey(n) : n \in SameName}

InitSame ==
    /\ entries = <<NewEntry("ReadOnly", "vec", "ro", Default("vec")),
                   NewEntry("BiDirectional", "i32", "bi", Default("i32"))>>
    /\ signals = [n \in Keyed |-> IF n = "ro" THEN 1
                                  ELSE IF n = "bi" THEN 2 ELSE 0]
    /\ fwd = <<[sess |-> 1, entry |-> 2, buf |-> <<>>, st |-> "running",
                lagged |-> FALSE, skipped |-> 0]>>
    /\ hnd = [s \in Sessions |-> HndIdle]
    /\ inq = [s \in Sessions |-> <<>>]
    /\ out = [s \in Sessions |-> <<>>]
    /\ parked = [s \in Sessions |-> <<>>]
    /\ cli = [c \in Sessions |->
                [n \in Keyed |->
                    IF c = 1 /\ n = "bi"
                    THEN [Absent EXCEPT !.present = TRUE,
                                        !.kind = "BiDirectional", !.ty = "i32",
                                        !.bufs = <<<<>>>>, !.news = 1,
                                        !.established = 1]
                    ELSE Absent]]
    /\ tasks = [c \in Sessions |-> <<>>]
    /\ lw = [n \in Names |-> [pc |-> "idle", h |-> IF n = "ro" THEN 1 ELSE 2,
                              patch |-> <<>>, writes |-> 0, noop |-> FALSE,
                              did_update |-> TRUE]]
    /\ thr = [t \in Threads |-> ThrIdle]
    /\ calls = <<>>
    /\ cnt = [writes |-> 0, calls |-> 0, raw |-> 0, re |-> 0]

NextSame ==
    \/ \E n \in SameName : channel_new(n)
    \/ \E n \in SameName : on_server(n)
    \/ \E n \in SameName : delete_channel(n)
    \/ \E n \in SameName : send_message(n)
    \/ \E s \in Sessions : add_observer_channel(s)
    \/ \E s \in Sessions : send_channel_response(s)
    \/ \E s \in Sessions : spawn_handle_broadcasts(s)
    \/ \E s \in Sessions : handle_message(s)
    \/ \E v \in RawTexts : raw_message(2, "bi", v)
    \/ \E k \in DOMAIN fwd : handle_broadcasts(k)
    \/ \E n \in SameName : client_channel_new(1, n)
    \/ \E n \in SameName : client_send_message(1, n)
    \/ \E n \in SameName :
           \E k \in DOMAIN cli[1][ChanKey(n)].bufs :
               handle_broadcasts_client(1, ChanKey(n), k)
    \/ receive_channel(1)

SpecSame == InitSame /\ [][NextSame]_vars

\* The frames only the server sends, made by a peer for the name n
ServerOnlyFrames(n) ==
    {EstablishResponse("ServerSignal.Establish", n, JInt(1)),
     Update("ReadOnly", n, <<OpReplace(Root, JInt(1))>>),
     EstablishResponse("BiDirectional.Establish", n, JInt(1)),
     ChannelEstablishResponse(n)}

ServerOnlyTags ==
    {"ServerSignal.EstablishResponse", "ServerSignal.Update",
     "BiDirectional.EstablishResponse", "Channel.EstablishResponse"}

raw_reply(s, f) ==
    /\ cnt.raw < MaxRaw
    /\ cnt' = [cnt EXCEPT !.raw = @ + 1]
    /\ inq' = [inq EXCEPT ![s] = Append(@, [f EXCEPT !.by = s])]
    /\ UNCHANGED <<signals, entries, fwd, hnd, out, parked, cli, tasks, lw,
                   thr, calls>>

\* the clients hold "bi"; the peer of session 1 also sends frames only the
\* server sends
NextReply ==
    \/ ServerSteps({"bi"}, Bits)
    \/ ClientCreates(Sessions, {"bi"})
    \/ ClientSteps
    \/ \E f \in ServerOnlyFrames("bi") : raw_reply(1, f)
    \/ \E s \in Sessions : unexpected_message(s)

SpecReply == Init /\ [][NextReply]_vars

\* the channel of the example: the server has created "echo" and on_server
\* has registered the closure that sends every message back; the clients
\* create the channel and send, the server sends messages of its own
InitChan ==
    /\ entries = <<ChannelEntry("echo", TRUE)>>
    /\ signals = [n \in Names \cup Channels |-> IF n \in Channels THEN 1 ELSE 0]
    /\ fwd = <<>>
    /\ hnd = [s \in Sessions |-> HndIdle]
    /\ inq = [s \in Sessions |-> <<>>]
    /\ out = [s \in Sessions |-> <<>>]
    /\ parked = [s \in Sessions |-> <<>>]
    /\ cli = [c \in Sessions |-> [n \in Names \cup Channels |-> Absent]]
    /\ tasks = [c \in Sessions |-> <<>>]
    /\ lw = [n \in Names |-> [pc |-> "idle", h |-> 0, patch |-> <<>>,
                              writes |-> 0, noop |-> FALSE,
                              did_update |-> TRUE]]
    /\ thr = [t \in Threads |-> ThrIdle]
    /\ calls = <<>>
    /\ cnt = [writes |-> 0, calls |-> 0, raw |-> 0, re |-> 0]

NextChan ==
    \/ \E n \in Channels : send_message(n)
    \/ \E s \in Sessions : add_observer_channel(s)
    \/ \E s \in Sessions : send_channel_response(s)
    \/ \E s \in Sessions : spawn_handle_broadcasts(s)
    \/ \E s \in Sessions : handle_message(s)
    \/ \E k \in DOMAIN fwd : handle_broadcasts(k)
    \/ \E c \in Sessions, n \in Channels : client_channel_new(c, n)
    \/ \E c \in Sessions, n \in Channels : client_send_message(c, n)
    \/ \E c \in Sessions, n \in Channels :
           \E k \in DOMAIN cli[c][n].bufs : handle_broadcasts_client(c, n, k)
    \/ \E c \in Sessions : receive_channel(c)

SpecChan == InitChan /\ [][NextChan]_vars

(***************************************************************************)
(* Properties.                                                             *)
(***************************************************************************)
\* nothing is in flight: no local write of the server is under way, every
\* session has read its frames, every queue and every receiver is drained
\* and every forwarder runs
Quiescent ==
    /\ \A n \in Names : lw[n].pc = "idle"
    /\ \A s \in Sessions :
          /\ hnd[s].pc = "idle"
          /\ inq[s] = <<>>
          /\ out[s] = <<>>
          /\ tasks[s] = <<>>
    /\ \A k \in DOMAIN fwd : fwd[k].st = "running" /\ fwd[k].buf = <<>>
    /\ \A c \in Sessions, n \in Names :
          \A k \in DOMAIN cli[c][n].bufs : cli[c][n].bufs[k] = <<>>

\* nothing is in flight, where a forwarder may have ended
Settled ==
    /\ \A n \in Names : lw[n].pc = "idle"
    /\ \A s \in Sessions :
          /\ hnd[s].pc = "idle"
          /\ inq[s] = <<>>
          /\ out[s] = <<>>
          /\ tasks[s] = <<>>
    /\ \A k \in DOMAIN fwd :
          fwd[k].st \in {"running", "done"} /\ fwd[k].buf = <<>>
    /\ \A c \in Sessions, n \in Names :
          \A k \in DOMAIN cli[c][n].bufs : cli[c][n].bufs[k] = <<>>

\* C1: no Update on the outbound queue of a session was broadcast with the
\* id of that session as its origin.
C1_NoEcho ==
    \A s \in Sessions : \A i \in DOMAIN out[s] :
        IsUpdate(out[s][i]) => out[s][i].org # s

\* a forwarder has skipped an update of its own session while the same
\* session's update is on the outbound queue of another session
C1_Witness ==
    \E k \in DOMAIN fwd :
        /\ fwd[k].skipped > 0
        /\ \E s \in Sessions : \E i \in DOMAIN out[s] :
              IsUpdate(out[s][i]) /\ out[s][i].org = fwd[k].sess

\* C2: every event on a broadcast endpoint of the server carries origin None
\* when a local write of the server produced it and Some(id of S) when the
\* frame of session S produced it, and never the id of another session.
C2_OriginIsWriter ==
    \A k \in DOMAIN fwd : \A i \in DOMAIN fwd[k].buf :
        LET ev == fwd[k].buf[i]
        IN /\ ev.frame.by \in {None} \cup Sessions
           /\ ev.origin = ev.frame.by

\* one receiver holds an event of a local write and an event of a session
C2_Witness ==
    \E k \in DOMAIN fwd : \E i, j \in DOMAIN fwd[k].buf :
        /\ fwd[k].buf[i].origin = None
        /\ fwd[k].buf[j].origin \in Sessions
        /\ fwd[k].buf[j].frame.by = fwd[k].buf[j].origin

\* C3: once a client has got the EstablishResponse of a signal and nothing
\* is in flight any more, the client's shadow equals the server's shadow,
\* however the writes of the server interleave with the Establish handling.
C3_ShadowsAgree ==
    Quiescent =>
        \A c \in Sessions, n \in Names :
            Established(c, n) /\ signals[n] # 0 =>
                cli[c][n].json_value = entries[signals[n]].json_value

\* C4: a bidirectional signal written by several clients and the server
\* converges: when the writers have stopped and nothing is in flight, the
\* shadow of every client equals the shadow of the server.
C4_Converges ==
    \A n \in Names :
        (/\ KindOf(n) = "BiDirectional"
         /\ signals[n] # 0
         /\ \A c \in Sessions : Established(c, n) /\ cli[c][n].wrote
         /\ Quiescent) =>
            \A c \in Sessions :
                cli[c][n].json_value = entries[signals[n]].json_value

\* C5: a client gets one EstablishResponse, holding the shadow after N
\* updates, and then exactly the updates N+1, N+2, ...: none that the
\* snapshot holds already, and none missing once nothing is in flight.
C5_LateSubscriber ==
    \A c \in Sessions, n \in Names :
        cli[c][n].present =>
            /\ cli[c][n].established <= 1
            /\ \A i \in DOMAIN cli[c][n].seen :
                  cli[c][n].seen[i] = cli[c][n].snap + i
            /\ Quiescent /\ Established(c, n) /\ signals[n] # 0 =>
                  cli[c][n].snap + Len(cli[c][n].seen) = entries[signals[n]].seq

\* C6 (I1): whenever no local write of a server signal is under way, so after
\* every release of the lock of its shadow by a local write or by a remote
\* patch, the shadow is the serialization of the value of the cell.
C6_ShadowIsCell ==
    \A n \in Names :
        signals[n] # 0 /\ lw[n].pc = "idle" =>
            entries[signals[n]].json_value = ToValue(entries[signals[n]].value)

\* C7: every handle a call of new() has returned refers to the entry its
\* name is bound to, also when calls of new() for one name overlap.
C7_HandlesAreBound ==
    \A i \in DOMAIN calls :
        calls[i].res = "Ok" => signals[calls[i].name] = calls[i].h

\* C8: a call of new() for a name that is bound to an entry of the caller's
\* type returns that entry and changes neither the registry nor any entry
\* (the initial value it passes is ignored); on the client it sends no
\* further Establish.
C8_SecondNewSharesEntry ==
    [][/\ Len(calls') > Len(calls) =>
            LET c == calls'[Len(calls')]
            IN (/\ c.bound # 0
                /\ signals[c.name] = c.bound
                /\ Downcasts(entries[c.bound], c.kind, c.ty)) =>
                   /\ c.res = "Ok"
                   /\ c.h = c.bound
                   /\ signals' = signals
                   /\ entries' = entries
       /\ \A c \in Sessions, n \in Names :
            cli[c][n].present /\ cli'[c][n].news > cli[c][n].news =>
                /\ inq' = inq
                /\ cli'[c][n] = [cli[c][n] EXCEPT !.news = @ + 1]]_vars

\* a second call on the server has returned the entry of the first although
\* it passed another initial value, and a client has called new() twice for
\* one name
C8_Witness ==
    /\ \E i \in DOMAIN calls :
          /\ calls[i].bound # 0
          /\ calls[i].res = "Ok"
          /\ calls[i].h = calls[i].bound
          /\ calls[i].init # entries[calls[i].h].initial
          /\ entries[calls[i].h].value = entries[calls[i].h].initial
    /\ \E c \in Sessions, n \in Names :
          /\ cli[c][n].news >= 2
          /\ Len(inq[c]) = 1

\* C9: a call of new() for a name bound to an entry of another type or
\* variant returns AddingSignalFailed.
C9_MismatchIsError ==
    \A i \in DOMAIN calls :
        (/\ calls[i].bound # 0
         /\ calls[i].cur = calls[i].bound
         /\ ~Downcasts(entries[calls[i].bound], calls[i].kind, calls[i].ty)) =>
            calls[i].res = "AddingSignalFailed"

\* C10: the shadow and the cell of a ReadOnly signal change, and an update
\* of it is broadcast, only in a step of a local write of the server.
C10_ReadOnlyServerOnly ==
    [][\A e \in DOMAIN entries :
          (/\ entries[e].kind = "ReadOnly"
           /\ \/ entries'[e] # entries[e]
              \/ \E k \in DOMAIN fwd :
                    /\ fwd[k].entry = e
                    /\ Len(fwd'[k].buf) > Len(fwd[k].buf)) =>
              lw'[entries[e].name] # lw[entries[e].name]]_vars

\* C11: client 1 adds 1 and the server adds 10 to a bidirectional i32 that
\* is 0: when nothing is in flight any more the shadow of the server and
\* the shadow of the client are both 11, and neither got its own write back.
C11_BothIncrementsCount ==
    (/\ Quiescent
     /\ lw["bi"].writes = 1
     /\ cli[1]["bi"].wrote
     /\ cnt.writes = 2) =>
        /\ entries[signals["bi"]].json_value = JInt(ServerDelta + ClientDelta)
        /\ cli[1]["bi"].json_value = JInt(ServerDelta + ClientDelta)

\* C12: a local write whose closure leaves the value equal to the shadow
\* sends no event to any receiver, puts no frame on any outbound queue and
\* leaves the shadow as it is, in every step of the write.
C12_NoopWriteIsSilent ==
    [][\A n \in Names :
          lw'[n].noop /\ lw'[n] # lw[n] =>
              /\ fwd' = fwd
              /\ out' = out
              /\ entries'[lw[n].h].json_value = entries[lw[n].h].json_value
              /\ entries'[lw[n].h].seq = entries[lw[n].h].seq]_vars

\* such a write has ended while a receiver of the entry was subscribed
C12_Witness ==
    \E n \in Names :
        /\ lw[n].noop
        /\ lw[n].pc = "idle"
        /\ \E k \in DOMAIN fwd : fwd[k].entry = lw[n].h /\ fwd[k].st = "running"

\* C13: a client that was established on a read-only signal before the
\* server's writes were applied gets one Update per write that changed the
\* value, in the order of the writes, and ends with the server's value.
C13_EveryWriteArrivesOnce ==
    \A c \in Sessions, n \in Names :
        (/\ KindOf(n) = "ReadOnly"
         /\ signals[n] # 0
         /\ Established(c, n)
         /\ cli[c][n].snap = 0) =>
            /\ \A i \in DOMAIN cli[c][n].seen : cli[c][n].seen[i] = i
            /\ Quiescent =>
                  /\ Len(cli[c][n].seen) = entries[signals[n]].seq
                  /\ cli[c][n].json_value = entries[signals[n]].json_value
                  /\ cli[c][n].value = entries[signals[n]].value

\* two clients have each got the two updates of two writes of the server
C13_Witness ==
    /\ Quiescent
    /\ entries[signals["ro"]].seq = MaxWrites
    /\ \A c \in Sessions :
          /\ Established(c, "ro")
          /\ cli[c]["ro"].snap = 0
          /\ Len(cli[c]["ro"].seen) = MaxWrites
          /\ Len(cli[c]["ro"].value.a) = MaxWrites

\* C14: when the receiver of a session has lagged, the session is closed or
\* its client is seeded again with the current state: an open session whose
\* forwarder has ended does not keep a shadow that differs from the server's
\* once nothing is in flight.
C14_LagIsNotSilent ==
    \A k \in DOMAIN fwd :
        (/\ fwd[k].st = "done"
         /\ hnd[fwd[k].sess].pc = "idle"
         /\ Settled) =>
            \A n \in Names :
                signals[n] = fwd[k].entry /\ Established(fwd[k].sess, n) =>
                    cli[fwd[k].sess][n].json_value = entries[fwd[k].entry].json_value

\* C15: when the patch of an inbound update cannot be applied to the signal,
\* update_json returns UpdateSignalFailed, shadow and cell stay as they were,
\* nothing is broadcast and the session goes on with its next frame.
C15_FailedPatchChangesNothing ==
    [][\A s \in Sessions :
          (/\ hnd[s].pc = "idle"
           /\ inq[s] # <<>>
           /\ inq'[s] = Tail(inq[s])
           /\ Head(inq[s]).tag = "BiDirectional.Update"
           /\ signals[Head(inq[s]).name] # 0) =>
              LET f == Head(inq[s])
                  r == update_json(entries[signals[f.name]], f.patch, Some(s))
              IN r.res # "Ok" =>
                    /\ r.res = "UpdateSignalFailed"
                    /\ entries' = entries
                    /\ fwd' = fwd
                    /\ hnd'[s].pc = "idle"]_vars

\* the positions, in the order of the updates applied to the shadow, of the
\* Update frames for signal n in a queue
SeqsOf(q, n) ==
    LET idx == {i \in DOMAIN q : IsUpdate(q[i]) /\ q[i].name = n}
    IN [i \in idx |-> q[i].seq]

\* C16: every session gets the updates of a signal in the order in which
\* they were applied to the shadow of the server: in every receiver, on every
\* outbound queue and in what every client has received, a later frame is a
\* later update.
C16_OneOrder ==
    /\ \A k \in DOMAIN fwd : \A i, j \in DOMAIN fwd[k].buf :
          i < j => fwd[k].buf[i].frame.seq < fwd[k].buf[j].frame.seq
    /\ \A s \in Sessions, n \in Names :
          /\ \A i, j \in DOMAIN SeqsOf(out[s], n) :
                i < j => out[s][i].seq < out[s][j].seq
          /\ \A i, j \in DOMAIN cli[s][n].seen :
                i < j => cli[s][n].seen[i] < cli[s][n].seen[j]
          /\ \A i \in DOMAIN SeqsOf(out[s], n) :
                \A j \in DOMAIN cli[s][n].seen :
                    cli[s][n].established > 0 => cli[s][n].seen[j] < out[s][i].seq

\* both clients have received two updates of the signal
C16_Witness ==
    \A c \in Sessions :
        /\ Len(cli[c]["bi"].seen) = 2
        /\ cli[c]["bi"].seen[1] < cli[c]["bi"].seen[2]

\* nothing is in flight on the channels either
QuietChannels ==
    /\ Quiescent
    /\ \A c \in Sessions, n \in Channels :
          \A k \in DOMAIN cli[c][n].bufs : cli[c][n].bufs[k] = <<>>

\* C17: the messages the server sends on a channel after a session has
\* subscribed to it reach the client of that session one by one, in the
\* order of the sends and with the payload that was sent: no forwarder skips
\* one, the callback of the client is called with the i-th of them at its
\* i-th call, and when nothing is in flight it has been called for all.
C17_ServerMessageReachesAll ==
    \A k \in DOMAIN fwd :
        LET ent == entries[fwd[k].entry]
            h == cli[fwd[k].sess][ent.name].heard
        IN ent.kind = "Channel" =>
              /\ fwd[k].skipped = 0
              /\ \A i \in DOMAIN h :
                    /\ h[i].seq = fwd[k].from + i
                    /\ h[i].val = ent.log[h[i].seq]
              /\ QuietChannels => Len(h) = ent.seq - fwd[k].from

\* both clients have established the channel and have got two messages, a
\* message of the server's own among them
C17_Witness ==
    /\ QuietChannels
    /\ \A c \in Sessions :
          /\ Established(c, "echo")
          /\ Len(cli[c]["echo"].heard) >= 2
          /\ \E i \in DOMAIN cli[c]["echo"].heard :
                 cli[c]["echo"].heard[i].val = JText(1)

\* C18: when nothing is in flight, the callback of a client has been called
\* exactly once with each message the client has sent on the channel.
C18_EchoComesBackOnce ==
    QuietChannels =>
        \A c \in Sessions, n \in Channels :
            cli[c][n].callback =>
                \A i \in 1..cli[c][n].sent :
                    Cardinality({j \in DOMAIN cli[c][n].heard :
                                   cli[c][n].heard[j].val = ClientText(c, i)}) = 1

\* C19: a call of reconnect appends to the frames the client sends exactly
\* one Establish for every signal of its registry and nothing else, and
\* leaves the registry, the shadows and the cells of the client as they
\* were.
C19_ReconnectEstablishesEach ==
    [][\A c \in Sessions :
          reconnect(c) =>
              LET sent == SubSeq(inq'[c], Len(inq[c]) + 1, Len(inq'[c]))
              IN /\ \A i \in DOMAIN sent : IsEstablish(sent[i])
                 /\ \A n \in DOMAIN cli[c] :
                       Cardinality({i \in DOMAIN sent : sent[i].name = n}) =
                           IF cli[c][n].present THEN 1 ELSE 0
                 /\ cli' = cli]_vars

\* client 1 holds both signals and has been seeded a second time for each,
\* the answer to the Establish of a reconnect, with a shadow the server has
\* written
C19_Witness ==
    /\ \A n \in ReadOnlyNames :
          cli[1][n].present /\ cli[1][n].established >= 2
    /\ cli[1]["ro"].json_value # ToValue(Default("vec"))

\* C20: a frame the client sends is queued behind the frames it has sent
\* before, also while its websocket is not open (the Establish of a signal
\* it creates); nothing leaves the queue but its first frame, which the
\* server reads, and nothing leaves it before the websocket is open; once the
\* websocket is open every queued frame is read.
C20_StagedFramesAreSent ==
    /\ [][\A c \in Sessions :
             /\ \A n \in DOMAIN cli[c] :
                   (~cli[c][n].present /\ cli'[c][n].present) =>
                       inq'[c] = Append(inq[c], Establish(KindOf(n), n))
             /\ \/ /\ Len(inq'[c]) >= Len(inq[c])
                   /\ SubSeq(inq'[c], 1, Len(inq[c])) = inq[c]
                \/ /\ hnd[c].pc # "closed"
                   /\ inq[c] # <<>>
                   /\ inq'[c] = Tail(inq[c])]_vars
    /\ \A c \in Sessions : [](hnd[c].pc # "closed" => <>(inq[c] = <<>>))

\* client 1 has created the three signals before its websocket was open, the
\* websocket has opened since and the server has answered all three
C20_Witness ==
    /\ hnd[1].pc = "idle"
    /\ inq[1] = <<>>
    /\ \A n \in AllNames : cli[1][n].early /\ Established(1, n)

\* C21: once a signal is deleted from the registry of the server, every
\* forwarder task that runs on a receiver of its entry ends, also while a
\* handle of the entry is still held.
C21_DeleteEndsForwarders ==
    (signals["bi"] = 0) ~>
        (\A k \in DOMAIN fwd :
            entries[fwd[k].entry].name = "bi" => fwd[k].st # "running")

\* C22: once the websocket of a session has closed, every forwarder task of
\* the session ends, whether or not the signal is written again.
C22_CloseEndsForwarders ==
    \A s \in Sessions :
        (hnd[s].pc = "gone") ~>
            (\A k \in DOMAIN fwd : fwd[k].sess = s => fwd[k].st # "running")

\* C23: the outbound queue of a session never holds more frames than its
\* capacity, and neither does the outbound queue of a client, which is what
\* the client has sent while its websocket is not open yet: a producer
\* waits for room instead of queueing beyond it.
C23_QueuesAreBounded ==
    \A s \in Sessions :
        /\ Len(out[s]) <= OutboundBuffer + Senders(s)
        /\ hnd[s].pc = "closed" => Len(inq[s]) <= ClientBuffer + ClientSenders(s)

\* C24: the step that reads a frame that cannot be decoded changes nothing
\* of the registry, the entries and the receivers, and leaves the loop that
\* read it running for the frames that follow, on the server (the inbound
\* task of the session) and on the client (the receive loop).
C24_DecodeErrorIsDropped ==
    [][\A s \in Sessions :
          /\ (inq[s] # <<>> /\ Head(inq[s]) = ErrFrame /\ inq'[s] = Tail(inq[s]))
                => /\ signals' = signals
                   /\ entries' = entries
                   /\ fwd' = fwd
                   /\ hnd'[s].pc = "idle"
          /\ (cnt'.raw # cnt.raw /\ out'[s] # out[s])
                => cli' = cli /\ tasks' = tasks]_vars

\* C25: the step in which the inbound task of a session reads a frame only
\* the server sends (ServerSignal.EstablishResponse, ServerSignal.Update,
\* BiDirectional.EstablishResponse, Channel.EstablishResponse) changes
\* neither the registry nor an entry (shadow, cell, broadcast endpoint) nor a
\* receiver nor the outbound queue of the session, and the task goes on to
\* the next frame.
C25_ServerOnlyFrameIsIgnored ==
    [][\A s \in Sessions :
          (/\ inq[s] # <<>>
           /\ Head(inq[s]).tag \in ServerOnlyTags
           /\ inq'[s] = Tail(inq[s]))
            => /\ signals' = signals
               /\ entries' = entries
               /\ fwd' = fwd
               /\ out'[s] = out[s]
               /\ parked'[s] = parked[s]
               /\ hnd'[s] = hnd[s]
               /\ hnd[s].pc = "idle"]_vars

\* the frame of the peer has been read and the session has gone on to set
\* up the signal of its client
C25_Witness ==
    /\ cnt.raw = MaxRaw
    /\ inq[1] = <<>>
    /\ hnd[1].pc = "idle"
    /\ Established(1, "bi")
    /\ \E k \in DOMAIN fwd : fwd[k].sess = 1 /\ fwd[k].st = "running"

\* C26: between the step of a local write that computes the diff of the
\* cell against the shadow and the step that applies it, no other step
\* changes the shadow: the diff and its application are one critical
\* section, and no remote patch comes between them.
C26_DiffAndApplyAreAtomic ==
    [][(lw["bi"].pc = "diffed" /\ lw'["bi"].pc = "diffed")
         => entries'[lw["bi"].h].json_value
              = entries[lw["bi"].h].json_value]_vars

\* C27: a local write whose closure reported that it did not mutate stops
\* after the closure: in no later step of that write is the shadow changed
\* or an event handed to a receiver, whatever the closure left in the cell.
C27_UnreportedWriteStops ==
    [][(lw["bi"].pc # "idle" /\ ~lw["bi"].did_update)
         => /\ entries'[lw["bi"].h].json_value
                 = entries[lw["bi"].h].json_value
            /\ entries'[lw["bi"].h].seq = entries[lw["bi"].h].seq
            /\ \A k \in DOMAIN fwd :
                   Len(fwd'[k].buf) <= Len(fwd[k].buf)]_vars

\* C28: the client hands an update to the forwarders of a bidirectional
\* entry only in a local write: a local write of an established client that
\* changes the value gives every forwarder of the entry exactly one update,
\* the diff of the write, and a step in which the client takes a frame from
\* the server or applies a received update gives the forwarders and the
\* send queue of the client nothing.
C28_OneUpdatePerLocalWrite ==
    [][\A c \in Sessions :
          LET old == cli[c]["bi"]
              new == cli'[c]["bi"]
          IN /\ (/\ Established(c, "bi")
                 /\ cnt'.writes # cnt.writes
                 /\ new.value # old.value
                 /\ new.json_value # old.json_value)
                  => \A k \in DOMAIN old.bufs :
                        new.bufs[k] =
                          Append(old.bufs[k],
                                 [Update("BiDirectional", "bi",
                                         Diff(old.json_value, new.json_value))
                                    EXCEPT !.by = c])
             /\ (out'[c] # out[c] \/ tasks'[c] # tasks[c])
                  => /\ inq'[c] = inq[c]
                     /\ \A k \in DOMAIN old.bufs : new.bufs[k] = old.bufs[k]]_vars

\* C29: a local write reaches the cell once.  On the server the step of
\* update_json that applies the diff of a local write leaves the cell as
\* the closure left it; on the client a local write notifies the
\* subscribers of the cell once, update_json not setting the cell again.
C29_LocalWriteLeavesCell ==
    [][/\ (lw["bi"].pc = "diffed" /\ lw'["bi"].pc = "idle")
           => entries'[lw["bi"].h].value = entries[lw["bi"].h].value
       /\ \A c \in Sessions : cli'[c]["bi"].notified <= 1]_vars

\* C30: the step in which the client takes an EstablishResponse for an
\* entry it holds leaves the shadow equal to the payload and the cell equal
\* to the value the payload stands for, whatever both were before, and
\* puts nothing into the send queue of the client or into a receiver of
\* the entry.
C30_EstablishResponseSeeds ==
    [][\A c \in Sessions :
          (/\ out[c] # <<>>
           /\ out'[c] = Tail(out[c])
           /\ IsResponse(Head(out[c]))
           /\ cli[c][Head(out[c]).name].present)
            => LET f == Head(out[c])
                   old == cli[c][f.name]
                   new == cli'[c][f.name]
               IN /\ new.json_value = f.val
                  /\ ToValue(new.value) = f.val
                  /\ inq'[c] = inq[c]
                  /\ \A k \in DOMAIN old.bufs : new.bufs[k] = old.bufs[k]
                  /\ \A k \in DOMAIN new.bufs \ DOMAIN old.bufs :
                         new.bufs[k] = <<>>]_vars

\* C31: the step in which a session applies a BiDirectional.Update whose
\* patch applies and leaves the shadow equal to what it was hands the
\* update, with the session as its origin, to every live receiver of the
\* entry all the same.
C31_EqualShadowStillFansOut ==
    [][\A s \in Sessions :
          (/\ inq[s] # <<>>
           /\ hnd[s].pc = "idle"
           /\ Head(inq[s]).tag = "BiDirectional.Update"
           /\ inq'[s] = Tail(inq[s])
           /\ signals[Head(inq[s]).name] # 0)
            => LET f == Head(inq[s])
                   e == signals[f.name]
                   r == ApplyPatch(entries[e].json_value, f.patch)
               IN (/\ r.ok
                   /\ r.doc = entries[e].json_value
                   /\ FromValueOk(entries[e].ty, r.doc))
                    => \A k \in DOMAIN fwd :
                          (/\ fwd[k].entry = e
                           /\ fwd[k].st # "done"
                           /\ Len(fwd[k].buf) < BroadcastCap)
                            => /\ Len(fwd'[k].buf) = Len(fwd[k].buf) + 1
                               /\ fwd'[k].buf[Len(fwd'[k].buf)].origin = Some(s)
                               /\ fwd'[k].buf[Len(fwd'[k].buf)].frame.patch
                                    = f.patch]_vars

\* the empty patch of session 1 has reached the outbound queue of session 2
C31_Witness ==
    \E i \in DOMAIN out[2] :
       /\ out[2][i].tag = "BiDirectional.Update"
       /\ out[2][i].by = 1
       /\ out[2][i].patch = <<>>

\* C32: no step of a channel operation (new, on_server, delete_channel,
\* send_message, Channel.Establish, Channel.Message, on the server or on a
\* client) changes a binding of the signal map, an entry bound there
\* (shadow, cell) or an entry of a client's signal map, and every
\* Channel.EstablishResponse on an outbound queue holds the name of the
\* channel and nothing else.
C32_ChannelsLeaveSignalsAlone ==
    [][/\ \A n \in Names :
            /\ signals'[n] = signals[n]
            /\ signals[n] # 0 => entries'[signals[n]] = entries[signals[n]]
            /\ \A c \in Sessions : cli'[c][n] = cli[c][n]
       /\ \A s \in Sessions : \A i \in DOMAIN out'[s] :
            out'[s][i].tag = "Channel.EstablishResponse"
              => out'[s][i] = ChannelEstablishResponse(out'[s][i].name)]_vars

\* the channel named "bi" has carried a message of the client back to it
\* while the signal "bi" is bound as before
C32_Witness ==
    /\ signals["bi"] = 2
    /\ signals[ChanKey("bi")] # 0
    /\ entries[signals[ChanKey("bi")]].log # <<>>
    /\ cli[1][ChanKey("bi")].heard # <<>>
    /\ cli[1]["bi"].established = 1

\* C33: the step in which a session reads a Channel.Message calls the
\* callback of the channel bound to the name once, with that message, when
\* a callback is registered and the payload is a T; when the name is
\* unbound, no callback is registered or the payload is no T, the step
\* changes no entry, no binding and no receiver; and no other step calls a
\* callback, so that registering one calls it for no earlier message.
C33_CallbackOncePerMessage ==
    [][/\ \A s \in Sessions :
            (/\ inq[s] # <<>>
             /\ Head(inq[s]).tag = "Channel.Message"
             /\ inq'[s] = Tail(inq[s]))
              => LET f == Head(inq[s])
                     e == signals[ChanKey(f.name)]
                 IN IF e # 0 /\ entries[e].callback /\ f.val.t = "str"
                    THEN entries'[e].invoked = Append(entries[e].invoked, f.val)
                    ELSE /\ entries' = entries
                         /\ signals' = signals
                         /\ fwd' = fwd
       /\ \A e \in DOMAIN entries :
            (entries[e].kind = "Channel"
               /\ entries'[e].invoked # entries[e].invoked)
              => \E s \in Sessions :
                    /\ inq[s] # <<>>
                    /\ Head(inq[s]).tag = "Channel.Message"
                    /\ inq'[s] = Tail(inq[s])]_vars

\* the peer's number has been read and dropped, and the callback has been
\* called with a message of the client
C33_Witness ==
    /\ cnt.raw = MaxRaw
    /\ inq[2] = <<>>
    /\ signals[ChanKey("bi")] # 0
    /\ entries[signals[ChanKey("bi")]].invoked = <<ClientText(1, 1)>>
    /\ entries[signals[ChanKey("bi")]].seq = 1

\* C34: a call of delete_signal for a name that is not bound returns
\* DeletingSignalFailed and changes nothing; for a bound name it returns Ok
\* and unbinds the name, leaving everything else; a call of new() that
\* begins while the name is unbound goes on to create, and when the name is
\* still unbound at its end it binds the name to a fresh entry that holds
\* the initial value of the call.
C34_DeleteThenNewIsFresh ==
    [][/\ (Len(calls') = Len(calls) + 1
           /\ calls'[Len(calls')].kind = "delete")
            => LET c == calls'[Len(calls')]
               IN /\ entries' = entries
                  /\ \A m \in DOMAIN signals \ {c.name} :
                         signals'[m] = signals[m]
                  /\ signals'[c.name] = 0
                  /\ c.res = IF signals[c.name] = 0
                             THEN "DeletingSignalFailed" ELSE "Ok"
       /\ \A t \in Threads :
            /\ (thr[t].pc = "idle" /\ thr'[t].pc # "idle"
                  /\ signals[thr'[t].name] = 0)
                 => thr'[t].pc = "create"
            /\ (thr[t].pc = "create" /\ thr'[t].pc = "idle"
                  /\ signals[thr[t].name] = 0)
                 => LET c == calls'[Len(calls')]
                    IN /\ c.res = "Ok"
                       /\ c.h = Len(entries) + 1
                       /\ signals'[thr[t].name] = c.h
                       /\ entries'[c.h].value = thr[t].init
                       /\ entries'[c.h].json_value = ToValue(thr[t].init)
                       /\ \A e \in DOMAIN entries :
                              entries'[e] = entries[e]]_vars

\* an unbound name was deleted in vain, then bound, deleted, and bound anew
\* to a second entry with another value
C34_Witness ==
    /\ Len(calls) = 4
    /\ calls[1].kind = "delete" /\ calls[1].res = "DeletingSignalFailed"
    /\ calls[2].res = "Ok" /\ calls[2].h = 1
    /\ calls[3].kind = "delete" /\ calls[3].res = "Ok"
    /\ calls[4].res = "Ok" /\ calls[4].h = 2
    /\ signals["bi"] = 2
    /\ entries[2].value # entries[1].value

\* C35: the step in which the inbound task of a session reads an Establish
\* (ServerSignal, BiDirectional or Channel) leaves the task running, also
\* when the name is not bound in the registry, so that the frames that
\* follow are processed.
C35_UnknownNameKeepsSession ==
    [][\A s \in Sessions :
          (/\ inq[s] # <<>>
           /\ hnd[s].pc = "idle"
           /\ (IsEstablish(Head(inq[s]))
                 \/ Head(inq[s]).tag = "Channel.Establish")
           /\ inq'[s] = Tail(inq[s]))
            => hnd'[s].pc \in {"subscribed", "subscribed_channel", "idle"}]_vars

\* C36: the outbound queue of a session never holds the same update of a
\* signal twice, however often the session has sent Establish for it.
C36_UpdateQueuedOnce ==
    \A s \in Sessions : \A i, j \in DOMAIN out[s] :
       (/\ i < j
        /\ out[s][i].tag \in {"ServerSignal.Update", "BiDirectional.Update"}
        /\ out[s][j].tag = out[s][i].tag
        /\ out[s][j].name = out[s][i].name)
         => out[s][j].seq # out[s][i].seq

\* C37: update_json and set_json are all or nothing.  A step of a session
\* whose update_json does not return Ok changes no entry and hands nothing
\* to a receiver; a step of a client whose update_json or set_json does not
\* return Ok leaves the shadow and the cell of the client's entry as they
\* were.
C37_FailedCallChangesNothing ==
    [][/\ \A s \in Sessions :
            (/\ hnd[s].pc = "idle"
             /\ inq[s] # <<>>
             /\ inq'[s] = Tail(inq[s])
             /\ Head(inq[s]).tag = "BiDirectional.Update"
             /\ signals[Head(inq[s]).name] # 0
             /\ update_json(entries[signals[Head(inq[s]).name]],
                            Head(inq[s]).patch, Some(s)).res # "Ok")
              => entries' = entries /\ fwd' = fwd
       /\ \A c \in Sessions :
            /\ (/\ out[c] # <<>>
                /\ out'[c] = Tail(out[c])
                /\ IsResponse(Head(out[c]))
                /\ cli[c][Head(out[c]).name].present
                /\ ~FromValueOk(cli[c][Head(out[c]).name].ty, Head(out[c]).val))
                 => LET n == Head(out[c]).name
                    IN /\ cli'[c][n].json_value = cli[c][n].json_value
                       /\ cli'[c][n].value = cli[c][n].value
            /\ (/\ tasks[c] # <<>>
                /\ tasks'[c] = Tail(tasks[c])
                /\ cli[c][Head(tasks[c]).name].present
                /\ client_update_json(cli[c][Head(tasks[c]).name],
                                      Head(tasks[c]).patch,
                                      Head(tasks[c]).id).res # "Ok")
                 => cli'[c] = cli[c]]_vars

\* C38: the step of new() in which create_signal finds the name bound, and
\* so fails with AddingSignalFailed, leaves the name bound to the entry it
\* was bound to.
C38_FailedCreateKeepsEntry ==
    [][\A t \in Threads :
          (/\ thr[t].pc = "create"
           /\ thr'[t].pc = "idle"
           /\ signals[thr[t].name] # 0)
            => signals'[thr[t].name] = signals[thr[t].name]]_vars

\* C39: when a client has written its bidirectional signal before the
\* EstablishResponse of the signal was processed, an update of that client
\* eventually reaches the server and is applied there.
C39_EarlyWriteIsSent ==
    (cli[1]["bi"].wrote /\ cli[1]["bi"].established = 0)
        ~> (entries[signals["bi"]].seq > 0)

\* C40: an Update frame of a signal on the outbound queue of a session comes
\* after the EstablishResponse of that signal: the response is ahead of it
\* on the queue, or the client of the session has taken it off the queue
\* already.
C40_SeedBeforeUpdates ==
    \A s \in Sessions : \A i \in DOMAIN out[s] :
       IsUpdate(out[s][i])
         => \/ \E j \in 1..(i - 1) : /\ IsResponse(out[s][j])
                                     /\ out[s][j].name = out[s][i].name
            \/ Established(s, out[s][i].name)

C40_Witness ==
    \E s \in Sessions : \E i, j \in DOMAIN out[s] :
       /\ j < i
       /\ IsUpdate(out[s][i])
       /\ IsResponse(out[s][j])
       /\ out[s][j].name = out[s][i].name
       /\ ~Established(s, out[s][i].name)

====
